---- MODULE Spec2Model ----
(***************************************************************************)
(* Outfit recommendation core of fashion-ai-backend:                       *)
(*   app/services/outfit_service.py          (generator and scorer)        *)
(*   app/services/personalized_ai_service.py (history miner and re-ranker) *)
(*   app/routes/ai_recommendations.py        (route wrapper)               *)
(* Strings are TLA+ strings handled with Len, SubSeq and \o, numbers that  *)
(* the code keeps as floats are exact rationals <<numerator, denominator>>.*)
(***************************************************************************)
EXTENDS Integers, Sequences, FiniteSets, TLC

VARIABLES
    op,                 \* which entry point this behaviour runs
    pc,                 \* position inside the entry point
    wardrobe,           \* clothing_items documents of the user
    occasion,           \* occasion argument
    count,              \* count argument of generate_suggestions
    weather_data,       \* weather record or None
    categorized,        \* buckets built by _categorize_items
    outfits,            \* outfits accepted so far / candidate list
    seen_combinations,  \* signatures accepted so far
    attempts,           \* loop counter of generate_suggestions
    outfit_history,     \* outfit_history documents of the user
    faults,             \* which collaborators fail in this request
    user_id,            \* TRUE iff analyze_outfit_coherence got a user_id
    user_preferences,   \* mined profile, or None
    result,             \* value returned to the caller once pc is "done"
    args,               \* arguments of a pure function under test, or None
    clip_service_instance, \* module global _clip_service_instance
    clip_model,         \* FashionAIService.clip_model of the service singleton
    loads,              \* how many times clip.load has run in this process
    cache,              \* WeatherService.cache: key -> (record, time stored)
    now,                \* the clock, in seconds
    users,              \* db.users documents
    sent,               \* daily reminders pushed, as <<user, time>>
    running             \* NotificationScheduler.running

vars == <<op, pc, wardrobe, occasion, count, weather_data,
          categorized, outfits, seen_combinations, attempts,
          outfit_history, faults, user_id, user_preferences, result,
          args, clip_service_instance, clip_model, loads,
          cache, now, users, sent, running>>

\* Python None, where the other values are dictionaries
None ==
    [none |-> TRUE]

----------------------------------------------------------------------------
(* Python string operations *)

\* `needle in hay`
Contains(hay, needle) ==
    \E i \in 1..(Len(hay) - Len(needle) + 1) :
        SubSeq(hay, i, i + Len(needle) - 1) = needle

\* any(word in hay for word in words)
AnyIn(words, hay) ==
    \E w \in words : Contains(hay, w)

UpperToLower ==
    [c \in {"A","B","C","D","E","F","G","H","I","J","K","L","M",
            "N","O","P","Q","R","S","T","U","V","W","X","Y","Z"} |->
        CASE c = "A" -> "a" [] c = "B" -> "b" [] c = "C" -> "c" [] c = "D" -> "d"
          [] c = "E" -> "e" [] c = "F" -> "f" [] c = "G" -> "g" [] c = "H" -> "h"
          [] c = "I" -> "i" [] c = "J" -> "j" [] c = "K" -> "k" [] c = "L" -> "l"
          [] c = "M" -> "m" [] c = "N" -> "n" [] c = "O" -> "o" [] c = "P" -> "p"
          [] c = "Q" -> "q" [] c = "R" -> "r" [] c = "S" -> "s" [] c = "T" -> "t"
          [] c = "U" -> "u" [] c = "V" -> "v" [] c = "W" -> "w" [] c = "X" -> "x"
          [] c = "Y" -> "y" [] c = "Z" -> "z"]

UpperCase ==
    DOMAIN UpperToLower

RECURSIVE LowerEach(_)
LowerEach(s) ==
    IF Len(s) = 0 THEN ""
    ELSE LET c == SubSeq(s, 1, 1)
         IN  (IF c \in UpperCase THEN UpperToLower[c] ELSE c)
                 \o LowerEach(SubSeq(s, 2, Len(s)))

\* str.lower(): a string without upper-case letters is returned as it is
Lower(s) ==
    IF \A i \in 1..Len(s) : SubSeq(s, i, i) \notin UpperCase THEN s ELSE LowerEach(s)

----------------------------------------------------------------------------
(* Exact arithmetic for the float expressions *)

RECURSIVE GCD(_, _)
GCD(a, b) ==
    IF b = 0 THEN a ELSE GCD(b, a % b)

AbsInt(n) ==
    IF n < 0 THEN -n ELSE n

\* the rational n/d in lowest terms, d > 0
Rat(n, d) ==
    LET g == GCD(AbsInt(n), AbsInt(d))
        s == IF d < 0 THEN -1 ELSE 1
    IN  <<(s * n) \div g, (s * d) \div g>>

RAdd(a, b) ==
    Rat(a[1] * b[2] + b[1] * a[2], a[2] * b[2])

RSub(a, b) ==
    Rat(a[1] * b[2] - b[1] * a[2], a[2] * b[2])

RMul(a, b) ==
    Rat(a[1] * b[1], a[2] * b[2])

RLe(a, b) ==
    a[1] * b[2] <= b[1] * a[2]

RLt(a, b) ==
    a[1] * b[2] < b[1] * a[2]

RAbs(a) ==
    <<AbsInt(a[1]), a[2]>>

RMin(a, b) ==
    IF RLe(a, b) THEN a ELSE b

RMax(a, b) ==
    IF RLe(a, b) THEN b ELSE a

\* round(x, k) for a float x: nearest multiple of 1/scale, ties to even;
\* the value is returned as an integer count of 1/scale
RoundTo(a, scale) ==
    LET n == a[1] * scale
        d == a[2]
        q == n \div d              \* floor, d > 0
        r == n - q * d
    IN  IF 2 * r < d THEN q
        ELSE IF 2 * r > d THEN q + 1
        ELSE IF q % 2 = 0 THEN q ELSE q + 1

RECURSIVE SumSeq(_)
\* sum(...) over a list of rationals
SumSeq(s) ==
    IF s = <<>> THEN <<0, 1>> ELSE RAdd(Head(s), SumSeq(Tail(s)))

RECURSIVE LoweredField(_, _)
\* [str(item.get(field, "")).lower() for item in items if item.get(field)]
LoweredField(items, field) ==
    IF items = <<>> THEN <<>>
    ELSE IF Head(items)[field] # ""
         THEN <<Lower(Head(items)[field])>> \o LoweredField(Tail(items), field)
         ELSE LoweredField(Tail(items), field)

Range(s) ==
    {s[i] : i \in DOMAIN s}

----------------------------------------------------------------------------
(* Wardrobe documents.  id stands for the document identifier: the code    *)
(* reads it as item.get('id') or str(item.get('_id')).  A missing field    *)
(* is the empty string.                                                    *)

Item(i, cat, name, col, form, mat, sub) ==
    [id |-> i, category |-> cat, item_name |-> name, color |-> col,
     formality |-> form, material |-> mat, subcategory |-> sub]

WhiteShirt == Item(1, "Tops", "White Shirt", "white", "casual", "Cotton", "shirt")
Poncho     == Item(2, "", "poncho", "red", "", "wool", "")
BlueJeans  == Item(3, "bottoms", "blue jeans", "light blue", "casual", "denim", "jeans")
RedGown    == Item(4, "dresses", "red gown", "red", "formal", "silk", "")
BlackBoots == Item(5, "shoes", "black boots", "black", "casual", "leather", "winter boots")
WoolCoat   == Item(6, "outerwear", "wool coat", "navy", "business", "wool", "")
Belt       == Item(7, "accessories", "leather belt", "tan", "casual", "leather", "")
StrawHat   == Item(8, "accessories", "straw hat", "yellow", "casual", "straw", "")

\* the wardrobes a request may find in clothing_items
Wardrobes ==
    { <<>>,
      <<WhiteShirt, Poncho, BlueJeans>>,
      <<RedGown, BlackBoots, WoolCoat>>,
      <<WhiteShirt, BlueJeans, Belt, StrawHat>> }

ItemId(item) ==
    item.id

----------------------------------------------------------------------------
(* OutfitService: wardrobe processing *)

DetectCategory(item) ==
    LET name == Lower(item.item_name)
    IN  IF AnyIn({"shirt", "t-shirt", "blouse", "top", "sweater", "hoodie", "jersey", "polo"}, name)
            THEN "tops"
        ELSE IF AnyIn({"jeans", "pants", "trousers", "skirt", "shorts", "leggings", "chinos"}, name)
            THEN "bottoms"
        ELSE IF AnyIn({"dress", "jumpsuit", "romper", "gown"}, name)
            THEN "dresses"
        ELSE IF AnyIn({"jacket", "coat", "blazer", "cardigan", "vest", "parka"}, name)
            THEN "outerwear"
        ELSE IF AnyIn({"shoes", "sneakers", "boots", "sandals", "heels", "flats", "loafers"}, name)
            THEN "shoes"
        ELSE IF AnyIn({"belt", "scarf", "hat", "bag", "wallet", "watch", "jewelry"}, name)
            THEN "accessories"
        ELSE "other"

DetectSubcategory(item) ==
    LET name     == Lower(item.item_name)
        category == Lower(item.category)
    IN  IF category = "tops" THEN
            IF Contains(name, "t-shirt") \/ Contains(name, "tee") THEN "t-shirt"
            ELSE IF Contains(name, "shirt") THEN "shirt"
            ELSE IF Contains(name, "sweater") \/ Contains(name, "jumper") THEN "sweater"
            ELSE IF Contains(name, "hoodie") THEN "hoodie"
            ELSE IF Contains(name, "blouse") THEN "blouse"
            ELSE "general"
        ELSE IF category = "bottoms" THEN
            IF Contains(name, "jeans") THEN "jeans"
            ELSE IF Contains(name, "pants") \/ Contains(name, "trousers") THEN "pants"
            ELSE IF Contains(name, "shorts") THEN "shorts"
            ELSE IF Contains(name, "skirt") THEN "skirt"
            ELSE "general"
        ELSE "general"

DetectFormality(item) ==
    LET name == Lower(item.item_name)
    IN  IF AnyIn({"suit", "blazer", "tuxedo", "dress shirt", "tie", "heels", "loafers"}, name)
            THEN "formal"
        ELSE IF AnyIn({"dress pants", "button-down", "blouse", "slacks", "oxfords"}, name)
            THEN "business"
        ELSE IF AnyIn({"t-shirt", "jeans", "sneakers", "hoodie", "shorts"}, name)
            THEN "casual"
        ELSE IF AnyIn({"activewear", "joggers", "tank", "gym", "sport"}, name)
            THEN "sport"
        ELSE "casual"

\* color_map, in dictionary order
ColorMap ==
    << <<"navy",   {"navy", "dark blue", "deep blue"}>>,
       <<"blue",   {"blue", "light blue", "sky blue"}>>,
       <<"black",  {"black", "charcoal", "dark"}>>,
       <<"white",  {"white", "ivory", "cream", "off-white"}>>,
       <<"gray",   {"gray", "grey", "slate"}>>,
       <<"red",    {"red", "crimson", "scarlet"}>>,
       <<"green",  {"green", "olive", "emerald"}>>,
       <<"brown",  {"brown", "tan", "beige", "khaki"}>>,
       <<"purple", {"purple", "violet", "lavender"}>>,
       <<"yellow", {"yellow", "gold", "mustard"}>>,
       <<"pink",   {"pink", "rose", "blush"}>>,
       <<"orange", {"orange", "rust", "coral"}>> >>

StandardizeColor(color) ==
    LET color_lower == Lower(color)
        hits == {i \in DOMAIN ColorMap : AnyIn(ColorMap[i][2], color_lower)}
    IN  IF hits = {} THEN color_lower
        ELSE ColorMap[CHOOSE i \in hits : \A j \in hits : i <= j][1]

ProcessClothingItem(item) ==
    [id          |-> item.id,
     item_name   |-> item.item_name,
     category    |-> IF item.category = "" THEN DetectCategory(item) ELSE item.category,
     subcategory |-> IF item.subcategory = "" THEN DetectSubcategory(item) ELSE item.subcategory,
     formality   |-> IF item.formality = "" THEN DetectFormality(item) ELSE item.formality,
     material    |-> IF item.material = "" THEN "" ELSE Lower(item.material),
     color       |-> IF item.color = "" THEN "" ELSE StandardizeColor(item.color)]

\* get_user_wardrobe: the documents found, each one processed
GetUserWardrobe(items) ==
    [i \in DOMAIN items |-> ProcessClothingItem(items[i])]

----------------------------------------------------------------------------
(* OutfitService: candidate generator *)

BucketNames ==
    {"tops", "bottoms", "dresses", "outerwear", "shoes", "accessories"}

\* any(word in category or word in item_name for word in words)
WordHit(words, category, item_name) ==
    \E w \in words : Contains(category, w) \/ Contains(item_name, w)

\* variant: an item no keyword matches is left out of the buckets
BucketOfKnownOnly(item) ==
    LET category  == Lower(item.category)
        item_name == Lower(item.item_name)
    IN  IF WordHit({"shirt", "top", "blouse", "t-shirt", "tee", "sweater", "tank", "polo", "jersey"},
                   category, item_name) THEN "tops"
        ELSE IF WordHit({"pant", "jean", "trouser", "skirt", "short", "legging", "chino"},
                   category, item_name) THEN "bottoms"
        ELSE IF WordHit({"dress", "gown", "jumpsuit", "romper"},
                   category, item_name) THEN "dresses"
        ELSE IF WordHit({"jacket", "coat", "hoodie", "blazer", "cardigan", "vest", "parka", "windbreaker"},
                   category, item_name) THEN "outerwear"
        ELSE IF WordHit({"shoe", "boot", "sandal", "sneaker", "heel", "flat", "loafer", "slipper"},
                   category, item_name) THEN "shoes"
        ELSE IF WordHit({"accessory", "accessories", "bag", "hat", "cap", "scarf", "belt", "watch",
                    "jewelry", "sunglass"},
                   category, item_name) THEN "accessories"
        ELSE "other"

\* the bucket the if/elif chain of OutfitService._categorize_items appends to
BucketOf(item) ==
    LET category  == Lower(item.category)
        item_name == Lower(item.item_name)
    IN  IF WordHit({"shirt", "top", "blouse", "t-shirt", "tee", "sweater", "tank", "polo", "jersey"},
                   category, item_name) THEN "tops"
        ELSE IF WordHit({"pant", "jean", "trouser", "skirt", "short", "legging", "chino"},
                   category, item_name) THEN "bottoms"
        ELSE IF WordHit({"dress", "gown", "jumpsuit", "romper"},
                   category, item_name) THEN "dresses"
        ELSE IF WordHit({"jacket", "coat", "hoodie", "blazer", "cardigan", "vest", "parka", "windbreaker"},
                   category, item_name) THEN "outerwear"
        ELSE IF WordHit({"shoe", "boot", "sandal", "sneaker", "heel", "flat", "loafer", "slipper"},
                   category, item_name) THEN "shoes"
        ELSE IF WordHit({"accessory", "accessories", "bag", "hat", "cap", "scarf", "belt", "watch",
                    "jewelry", "sunglass"},
                   category, item_name) THEN "accessories"
        ELSE "tops"

CategorizeItems(items) ==
    [b \in BucketNames |-> SelectSeq(items, LAMBDA item : BucketOf(item) = b)]

\* random.choice(bucket) behind `if bucket:`
MandatoryOne(bucket) ==
    IF bucket = <<>> THEN {<<>>} ELSE {<<bucket[i]>> : i \in DOMAIN bucket}

\* random.choice(bucket) behind `if bucket and random.random() < p:`
OptionalOne(bucket) ==
    {<<>>} \cup {<<bucket[i]>> : i \in DOMAIN bucket}

MinInt(a, b) ==
    IF a < b THEN a ELSE b

\* variant: random.choices, which may repeat a position
SampleWithReplacement(population, k) ==
    { [i \in 1..k |-> population[pos[i]]] : pos \in [1..k -> DOMAIN population] }

\* random.sample(population, k): k entries at pairwise different positions
Sample(population, k) ==
    { [i \in 1..k |-> population[pos[i]]] :
        pos \in {f \in [1..k -> DOMAIN population] :
                    \A i, j \in 1..k : i # j => f[i] # f[j]} }

\* the accessories block of the top + bottom strategy
AccessoryPicks(accessories, used_item_ids) ==
    IF accessories = <<>> THEN {<<>>}
    ELSE LET num_accessories == MinInt(2, Len(accessories))
             available_accessories ==
                 SelectSeq(accessories, LAMBDA acc : ItemId(acc) \notin used_item_ids)
         IN  {<<>>} \cup
             (IF available_accessories = <<>> THEN {}
              ELSE UNION { Sample(available_accessories, num_to_add) :
                             num_to_add \in 1..MinInt(num_accessories,
                                                      Len(available_accessories)) })

\* Strategy 1: dress, shoes, maybe outerwear, maybe one accessory
DressStrategy(c) ==
    { d \o s \o o \o a :
        d \in MandatoryOne(c["dresses"]), s \in MandatoryOne(c["shoes"]),
        o \in OptionalOne(c["outerwear"]), a \in OptionalOne(c["accessories"]) }

\* Strategy 2: top, bottom, maybe shoes, maybe outerwear, maybe 1-2 accessories
SeparatesStrategy(c) ==
    UNION { { base \o a :
                a \in AccessoryPicks(c["accessories"], {ItemId(base[i]) : i \in DOMAIN base}) } :
            base \in { t \o b \o s \o o :
                         t \in MandatoryOne(c["tops"]), b \in MandatoryOne(c["bottoms"]),
                         s \in OptionalOne(c["shoes"]), o \in OptionalOne(c["outerwear"]) } }

\* every value one call of _create_outfit_from_categories can return; the
\* outfit carries its items and occasion (name, outfit_id and created_at are
\* labels no later step reads)
CreateOutfitFromCategories(c, occ) ==
    LET lists == (IF c["dresses"] # <<>> THEN DressStrategy(c) ELSE {})
                     \cup SeparatesStrategy(c)
    IN  { IF Len(items) < 2 THEN None ELSE [items |-> items, occasion |-> occ] :
            items \in lists }

\* variant: a top or a bottom alone is enough
IsOutfitValidEitherPart(outfit) ==
    LET items == outfit.items
        cat(i) == Lower(items[i].category)
    IN  /\ Len(items) >= 2
        /\ \/ \E i \in DOMAIN items : cat(i) = "dresses"
           \/ \E i \in DOMAIN items :
                  cat(i) \in {"tops", "shirt", "blouse", "t-shirt", "sweater"}
           \/ \E i \in DOMAIN items :
                  cat(i) \in {"bottoms", "pants", "jeans", "skirt", "shorts"}

IsOutfitValid(outfit) ==
    LET items == outfit.items
        cat(i) == Lower(items[i].category)
        has_dress  == \E i \in DOMAIN items : cat(i) = "dresses"
        has_top    == \E i \in DOMAIN items :
                          cat(i) \in {"tops", "shirt", "blouse", "t-shirt", "sweater"}
        has_bottom == \E i \in DOMAIN items :
                          cat(i) \in {"bottoms", "pants", "jeans", "skirt", "shorts"}
    IN  IF Len(items) < 2 THEN FALSE
        ELSE IF has_dress THEN TRUE
        ELSE has_top /\ has_bottom

RECURSIVE SortedInts(_)
\* sorted(...) of a list of identifiers
SortedInts(s) ==
    IF s = <<>> THEN <<>>
    ELSE LET m == CHOOSE i \in DOMAIN s : \A j \in DOMAIN s : s[i] <= s[j]
         IN  <<s[m]>> \o SortedInts([k \in 1..(Len(s) - 1) |-> IF k < m THEN s[k] ELSE s[k + 1]])

\* item_ids = tuple(sorted([item id for item in outfit['items']]))
Signature(outfit) ==
    SortedInts([i \in DOMAIN outfit.items |-> ItemId(outfit.items[i])])

----------------------------------------------------------------------------
(* Weather records *)

\* variant: bounds['min'] < temp_c < bounds['max']
GetTemperatureCategoryOpenBounds(temp_c) ==
    IF temp_c < 0 THEN "freezing"
    ELSE IF 0 < temp_c /\ temp_c < 10 THEN "cold"
    ELSE IF 10 < temp_c /\ temp_c < 20 THEN "cool"
    ELSE IF 20 < temp_c /\ temp_c < 30 THEN "warm"
    ELSE IF 30 < temp_c THEN "hot"
    ELSE "moderate"

\* WeatherService.get_temperature_category over temperature_categories
GetTemperatureCategory(temp_c) ==
    IF temp_c < 0 THEN "freezing"
    ELSE IF 0 <= temp_c /\ temp_c < 10 THEN "cold"
    ELSE IF 10 <= temp_c /\ temp_c < 20 THEN "cool"
    ELSE IF 20 <= temp_c /\ temp_c < 30 THEN "warm"
    ELSE IF 30 <= temp_c THEN "hot"
    ELSE "moderate"

Weather(temp, cond) ==
    [temperature |-> temp, condition |-> cond, category |-> GetTemperatureCategory(temp)]

\* the weather records a request may carry or the weather source may return
WeatherSnapshots ==
    { Weather(-5, "Clear"), Weather(35, "Light Rain") }

\* dict.get(key, default)
Get(d, key, default) ==
    IF key \in DOMAIN d THEN d[key] ELSE default

----------------------------------------------------------------------------
(* OutfitService: multi-factor scorer.  Scores are rationals. *)

Clamp01(score) ==
    RMin(RMax(score, <<0, 1>>), <<1, 1>>)

\* variant: the cold-weather bonuses alone, wool not among the warm materials
WeatherBonusWithoutWool(item, wd) ==
    LET material      == Lower(item.material)
        category_type == Lower(item.category)
    IN  IF wd.category \in {"cold", "freezing"} THEN
              (IF AnyIn({"fleece", "thermal", "down", "cashmere", "knit"}, material)
                  THEN 15 ELSE 0)
            + (IF category_type \in {"coat", "jacket", "sweater", "hoodie"} THEN 10 ELSE 0)
            + (IF item.subcategory \in {"parka", "puffer", "winter coat"} THEN 20 ELSE 0)
            + (IF Contains(Lower(wd.condition), "snow")
                  /\ AnyIn({"waterproof", "insulated", "thermal"}, material) THEN 30 ELSE 0)
        ELSE 0

\* what the first loop of _calculate_weather_score adds for one item, in 1/100
WeatherBonus(item, wd) ==
    LET condition     == Lower(wd.condition)
        category      == wd.category
        material      == Lower(item.material)
        category_type == Lower(item.category)
        temperature_part ==
            IF category \in {"cold", "freezing"} THEN
                  (IF AnyIn({"wool", "fleece", "thermal", "down", "cashmere", "knit"}, material)
                      THEN 15 ELSE 0)
                + (IF category_type \in {"coat", "jacket", "sweater", "hoodie"} THEN 10 ELSE 0)
                + (IF item.subcategory \in {"parka", "puffer", "winter coat"} THEN 20 ELSE 0)
            ELSE IF category = "cool" THEN
                  (IF AnyIn({"cotton", "denim", "light wool"}, material) THEN 10 ELSE 0)
                + (IF category_type \in {"jacket", "cardigan", "light sweater"} THEN 10 ELSE 0)
            ELSE IF category \in {"hot", "warm"} THEN
                  (IF AnyIn({"cotton", "linen", "breathable", "light"}, material) THEN 15 ELSE 0)
                + (IF category_type \in {"t-shirt", "shorts", "dress", "tank", "skirt"} THEN 10 ELSE 0)
                + (IF Contains(Lower(item.item_name), "sleeveless") THEN 5 ELSE 0)
            ELSE 0
        rain_part ==
            IF Contains(condition, "rain") THEN
                  (IF Contains(material, "waterproof") \/ Contains(category_type, "rain")
                      THEN 25 ELSE 0)
                + (IF category_type = "shoes" /\ Contains(material, "waterproof") THEN 20 ELSE 0)
            ELSE 0
        snow_part ==
            IF Contains(condition, "snow") THEN
                  (IF AnyIn({"waterproof", "insulated", "thermal"}, material) THEN 30 ELSE 0)
                + (IF item.subcategory \in {"snow boots", "winter boots"} THEN 20 ELSE 0)
            ELSE 0
        wind_part ==
            IF Contains(condition, "wind")
               /\ category_type \in {"jacket", "coat"} /\ Contains(material, "wind")
            THEN 15 ELSE 0
        sun_part ==
            IF (Contains(condition, "sun") \/ Contains(condition, "clear"))
               /\ category_type \in {"hat", "cap"}
            THEN 10 ELSE 0
    IN  temperature_part + rain_part + snow_part + wind_part + sun_part

\* what the second loop of _calculate_weather_score subtracts for one item, in 1/100
WeatherPenalty(item, wd) ==
    LET category      == wd.category
        material      == Lower(item.material)
        category_type == Lower(item.category)
    IN    (IF category \in {"hot", "warm"} THEN
                (IF AnyIn({"wool", "fleece", "thermal"}, material) THEN 10 ELSE 0)
              + (IF category_type \in {"coat", "heavy jacket"} THEN 15 ELSE 0)
           ELSE 0)
        + (IF category \in {"cold", "freezing"} THEN
                (IF AnyIn({"linen", "light cotton"}, material) THEN 10 ELSE 0)
              + (IF category_type \in {"shorts", "tank", "sleeveless"} THEN 20 ELSE 0)
           ELSE 0)

RECURSIVE SumInts(_)
SumInts(s) ==
    IF s = <<>> THEN 0 ELSE Head(s) + SumInts(Tail(s))

\* the processed wardrobe items of the model
KnownItems ==
    UNION { Range(GetUserWardrobe(w)) : w \in Wardrobes }

\* items as the scorer is handed them in cold weather
WoolOuterwear == Item(20, "outerwear", "", "navy", "", "wool", "")
CottonTop     == Item(21, "tops", "", "white", "", "cotton", "")
ThermalParka  == Item(22, "coat", "", "black", "", "thermal", "parka")
FleeceJacket  == Item(23, "jacket", "", "gray", "", "fleece", "")
LinenShorts   == Item(24, "shorts", "", "beige", "", "linen", "")
TankTop       == Item(25, "tank", "", "red", "", "light cotton", "")
LinenShirt    == Item(26, "tops", "", "white", "", "Linen", "")

ColdWeatherItems ==
    {WoolOuterwear, CottonTop, ThermalParka, FleeceJacket, LinenShorts, TankTop, LinenShirt}

\* weather records of a day at -5 degrees
FreezingSnapshots ==
    { Weather(-5, "Clear"), Weather(-5, "Snow") }

\* WeatherBonus and WeatherPenalty evaluated once for every item and weather
\* record of the model
WeatherTerms ==
    [item \in KnownItems \cup ColdWeatherItems |->
        [wd \in WeatherSnapshots \cup FreezingSnapshots |->
            [bonus |-> WeatherBonus(item, wd), penalty |-> WeatherPenalty(item, wd)]]]

CalculateWeatherScore(items, wd) ==
    IF items = <<>> \/ wd = None THEN <<1, 2>>
    ELSE LET score == 50
                      + SumInts([i \in DOMAIN items |-> WeatherTerms[items[i]][wd].bonus])
                      - SumInts([i \in DOMAIN items |-> WeatherTerms[items[i]][wd].penalty])
         IN  Clamp01(Rat(score, 100))

NeutralColors ==
    {"black", "white", "gray", "navy", "beige", "brown"}

BrightColors ==
    {"red", "yellow", "orange", "pink", "purple"}

\* variant: one shared colour costs 0.2 instead of earning it
CalculateColorScoreMonochromePenalised(items) ==
    LET colors == LoweredField(items, "color")
        bright_count == Cardinality({i \in DOMAIN colors : colors[i] \in BrightColors})
        score == 50
                 - (IF Cardinality(Range(colors)) = 1 THEN 20 ELSE 0)
                 + (IF \E i \in DOMAIN colors : i <= 2 /\ colors[i] \in NeutralColors
                       THEN 10 ELSE 0)
                 - (IF bright_count > 2 THEN 10 ELSE 0)
    IN  IF items = <<>> \/ colors = <<>> THEN <<1, 2>>
        ELSE Clamp01(Rat(score, 100))

\* variant: the bonus asks for both of the first two colours to be neutral
CalculateColorScoreBothNeutral(items) ==
    LET colors == LoweredField(items, "color")
        bright_count == Cardinality({i \in DOMAIN colors : colors[i] \in BrightColors})
        score == 50
                 + (IF Cardinality(Range(colors)) = 1 THEN 20 ELSE 0)
                 + (IF \A i \in DOMAIN colors : i <= 2 => colors[i] \in NeutralColors
                       THEN 10 ELSE 0)
                 - (IF bright_count > 2 THEN 10 ELSE 0)
    IN  IF items = <<>> \/ colors = <<>> THEN <<1, 2>>
        ELSE Clamp01(Rat(score, 100))

\* _calculate_color_score
CalculateColorScore(items) ==
    LET colors == LoweredField(items, "color")
        bright_count == Cardinality({i \in DOMAIN colors : colors[i] \in BrightColors})
        score == 50
                 + (IF Cardinality(Range(colors)) = 1 THEN 20 ELSE 0)
                 + (IF \E i \in DOMAIN colors : i <= 2 /\ colors[i] \in NeutralColors
                       THEN 10 ELSE 0)
                 - (IF bright_count > 2 THEN 10 ELSE 0)
    IN  IF items = <<>> \/ colors = <<>> THEN <<1, 2>>
        ELSE Clamp01(Rat(score, 100))

\* formality_scores.get(formality, 0.5)
FormalityScore(formality) ==
    CASE formality = "formal"   -> <<9, 10>>
      [] formality = "business" -> <<7, 10>>
      [] formality = "casual"   -> <<5, 10>>
      [] formality = "sport"    -> <<3, 10>>
      [] OTHER                  -> <<5, 10>>

\* occasion_targets.get(occasion.lower(), 0.5)
OccasionTarget(occ) ==
    LET o == Lower(occ)
    IN  CASE o = "formal"   -> <<8, 10>>
          [] o = "business" -> <<7, 10>>
          [] o = "casual"   -> <<5, 10>>
          [] o = "sport"    -> <<3, 10>>
          [] o = "party"    -> <<6, 10>>
          [] o = "beach"    -> <<4, 10>>
          [] o = "date"     -> <<6, 10>>
          [] OTHER          -> <<5, 10>>

CalculateOccasionScore(items, occ) ==
    IF items = <<>> THEN <<1, 2>>
    ELSE LET formalities   == [i \in DOMAIN items |-> FormalityScore(items[i].formality)]
             avg_formality == RMul(SumSeq(formalities), <<1, Len(formalities)>>)
             score         == RSub(<<1, 1>>, RAbs(RSub(avg_formality, OccasionTarget(occ))))
         IN  Clamp01(score)

\* the values random.uniform(0.6, 0.95) is drawn from here
StyleDraws ==
    { <<787, 1000>>, <<95, 100>> }

\* combined_score = style * 0.3 + color * 0.25 + occasion * 0.25 + weather * 0.2
WeightedSum(style, color, occ, weather) ==
    RAdd(RAdd(RMul(style, <<3, 10>>), RMul(color, <<25, 100>>)),
         RAdd(RMul(occ, <<25, 100>>), RMul(weather, <<2, 10>>)))

\* score_outfit, for the style score drawn; the "scores" entries are
\* round(x, 2), held as integer hundredths.  The "analysis" labels are
\* left out: nothing reads them.
ScoreOutfit(outfit, occ, wd, style_score) ==
    LET items          == outfit.items
        color_score    == CalculateColorScore(items)
        occasion_score == CalculateOccasionScore(items, occ)
        weather_score  == IF wd # None THEN CalculateWeatherScore(items, wd) ELSE <<1, 1>>
        combined_score == WeightedSum(style_score, color_score, occasion_score, weather_score)
    IN  [items    |-> items,
         occasion |-> outfit.occasion,
         scores   |-> [style_score    |-> RoundTo(style_score, 100),
                       color_score    |-> RoundTo(color_score, 100),
                       occasion_score |-> RoundTo(occasion_score, 100),
                       weather_score  |-> RoundTo(weather_score, 100),
                       combined_score |-> RoundTo(combined_score, 100)],
         is_weather_appropriate |-> RLe(<<6, 10>>, weather_score)]

\* lines 312-322 of generate_suggestions: the keys added when weather_data
\* is present
AddWeatherScore(scored_outfit, outfit, wd) ==
    LET weather_score == CalculateWeatherScore(outfit.items, wd)
    IN  [k \in DOMAIN scored_outfit \cup {"weather_score", "combined_score"} |->
            CASE k = "weather_score"  -> weather_score
              [] k = "combined_score" ->
                     WeightedSum(Get(scored_outfit, "style_score", <<7, 10>>),
                                 Get(scored_outfit, "color_score", <<7, 10>>),
                                 Get(scored_outfit, "occasion_score", <<7, 10>>),
                                 weather_score)
              [] k = "is_weather_appropriate" -> RLe(<<6, 10>>, weather_score)
              [] OTHER -> scored_outfit[k]]

\* one accepted outfit as the loop appends it
ScoredOutfit(outfit, occ, wd, style_score) ==
    LET scored_outfit == ScoreOutfit(outfit, occ, wd, style_score)
    IN  IF wd # None THEN AddWeatherScore(scored_outfit, outfit, wd) ELSE scored_outfit

RECURSIVE SortDescOrder(_, _)
\* the positions idx in the order a stable descending sort by keys leaves
\* them: largest key first, equal keys in their original order
SortDescOrder(idx, keys) ==
    IF idx = <<>> THEN <<>>
    ELSE LET m == CHOOSE i \in DOMAIN idx :
                      /\ \A j \in DOMAIN idx : RLe(keys[idx[j]], keys[idx[i]])
                      /\ \A j \in 1..(i - 1) : RLt(keys[idx[j]], keys[idx[i]])
         IN  <<idx[m]>> \o SortDescOrder([k \in 1..(Len(idx) - 1) |->
                                             IF k < m THEN idx[k] ELSE idx[k + 1]], keys)

\* list.sort(key=key, reverse=True) where keys[i] is the key of s[i]
SortDesc(s, keys) ==
    LET order == SortDescOrder([i \in DOMAIN s |-> i], keys)
    IN  [i \in DOMAIN s |-> s[order[i]]]

\* s[:n] for n >= 0
Take(s, n) ==
    SubSeq(s, 1, MinInt(n, Len(s)))

----------------------------------------------------------------------------
(* OutfitService._get_mock_outfits *)

MockItem(i, name, cat, col) ==
    [id |-> i, item_name |-> name, category |-> cat, color |-> col]

\* mock_items; identifiers 101..106 stand for "mock_1".."mock_6"
MockItems ==
    << MockItem(101, "White Cotton T-Shirt", "tops", "white"),
       MockItem(102, "Blue Denim Jeans", "bottoms", "blue"),
       MockItem(103, "Black Leather Jacket", "outerwear", "black"),
       MockItem(104, "White Sneakers", "shoes", "white"),
       MockItem(105, "Beige Chinos", "bottoms", "brown"),
       MockItem(106, "Gray Hoodie", "tops", "gray") >>

\* (style, color, occasion, weather) as drawn by round(random.uniform(..), 2)
\* from [0.7,0.9], [0.6,0.8], [0.7,0.9], [0.8,1.0], in hundredths
MockDraws ==
    { <<70, 60, 70, 80>>, <<83, 71, 77, 95>>, <<90, 80, 90, 100>> }

MockOutfit(i, occ, draw) ==
    [items    |-> IF i = 0 THEN <<MockItems[1], MockItems[2], MockItems[4]>>
                  ELSE IF i = 1 THEN <<MockItems[1], MockItems[5], MockItems[4]>>
                  ELSE <<MockItems[6], MockItems[2], MockItems[3], MockItems[4]>>,
     occasion |-> occ,
     scores   |-> [style_score    |-> draw[1],
                   color_score    |-> draw[2],
                   occasion_score |-> draw[3],
                   weather_score  |-> draw[4],
                   combined_score |->
                       RoundTo(Rat(draw[1] + draw[2] + draw[3] + draw[4], 400), 100)],
     is_weather_appropriate |-> TRUE,
     is_mock  |-> TRUE]

\* every list _get_mock_outfits(occasion, location, count) can return
GetMockOutfits(occ, n) ==
    LET len == IF MinInt(n, 3) < 0 THEN 0 ELSE MinInt(n, 3)
    IN  { [k \in 1..len |-> MockOutfit(k - 1, occ, draws[k])] :
            draws \in [1..len -> MockDraws] }

----------------------------------------------------------------------------
(* OutfitService.generate_suggestions *)

\* largest count argument explored
MaxCount == 2

\* max_attempts = count * 20
AttemptsPerOutfit == 20

Occasions ==
    {"casual", "Formal"}

NoCategories ==
    [b \in BucketNames |-> <<>>]

InitSuggest ==
    /\ op = "generate_suggestions"
    /\ args = None
    /\ clip_service_instance = None
    /\ clip_model = None
    /\ loads = 0
    /\ cache = <<>>
    /\ now = 0
    /\ users = <<>>
    /\ sent = <<>>
    /\ running = FALSE
    /\ pc = "start"
    /\ wardrobe \in Wardrobes
    /\ occasion \in Occasions
    /\ count \in 0..MaxCount
    /\ weather_data \in WeatherSnapshots \cup {None}
    /\ categorized = NoCategories
    /\ outfits = <<>>
    /\ seen_combinations = {}
    /\ attempts = 0
    /\ outfit_history = <<>>
    /\ faults = {}
    /\ user_id = FALSE
    /\ user_preferences = None
    /\ result = <<>>

\* lines 262-266: the wardrobe is empty, the mock outfits are returned
GS_EmptyWardrobe ==
    /\ op = "generate_suggestions" /\ pc = "start"
    /\ GetUserWardrobe(wardrobe) = <<>>
    /\ \E mock \in GetMockOutfits(occasion, count) : result' = mock
    /\ pc' = "done"
    /\ UNCHANGED <<cache, now, users, sent, running, args, clip_service_instance, clip_model, loads, op, wardrobe, occasion, count, weather_data, categorized,
                   outfits, seen_combinations, attempts, outfit_history, faults,
                   user_id, user_preferences>>

\* lines 262-285: wardrobe read and processed, weather looked up when a
\* location (loc) but no weather record was given, items categorized, loop
\* set up
GS_Start ==
    /\ op = "generate_suggestions" /\ pc = "start"
    /\ GetUserWardrobe(wardrobe) # <<>>
    /\ wardrobe' = GetUserWardrobe(wardrobe)
    /\ \E loc \in BOOLEAN :
          IF loc /\ weather_data = None
          THEN weather_data' \in WeatherSnapshots \cup {None}
          ELSE weather_data' = weather_data
    /\ categorized' = CategorizeItems(wardrobe')
    /\ outfits' = <<>>
    /\ seen_combinations' = {}
    /\ attempts' = 0
    /\ pc' = "loop"
    /\ UNCHANGED <<cache, now, users, sent, running, args, clip_service_instance, clip_model, loads, op, occasion, count, outfit_history, faults,
                   user_id, user_preferences, result>>

\* variant: one attempt too many
max_attempts_off_by_one ==
    count * AttemptsPerOutfit + 1

max_attempts ==
    count * AttemptsPerOutfit

\* variant: the signature is not recorded
AddSeenForgotten(seen, item_ids) ==
    seen

\* seen_combinations.add(item_ids)
AddSeen(seen, item_ids) ==
    seen \cup {item_ids}

\* while len(outfits) < count and attempts < max_attempts
LoopCondition ==
    Len(outfits) < count /\ attempts < max_attempts

\* the outfits of this iteration that pass `outfit and _is_outfit_valid(..)`
ValidOutfits ==
    { o \in CreateOutfitFromCategories(categorized, occasion) :
        o # None /\ IsOutfitValid(o) }

\* an iteration whose skeleton is None or invalid: only `attempts += 1` runs
GS_AttemptRejected ==
    /\ op = "generate_suggestions" /\ pc = "loop" /\ LoopCondition
    /\ CreateOutfitFromCategories(categorized, occasion) # ValidOutfits
    /\ attempts' = attempts + 1
    /\ UNCHANGED <<cache, now, users, sent, running, args, clip_service_instance, clip_model, loads, op, pc, wardrobe, occasion, count, weather_data, categorized,
                   outfits, seen_combinations, outfit_history, faults,
                   user_id, user_preferences, result>>

\* an iteration whose signature was seen: `attempts += 1; continue`
GS_AttemptDuplicate ==
    /\ op = "generate_suggestions" /\ pc = "loop" /\ LoopCondition
    /\ \E o \in ValidOutfits : Signature(o) \in seen_combinations
    /\ attempts' = attempts + 1
    /\ UNCHANGED <<cache, now, users, sent, running, args, clip_service_instance, clip_model, loads, op, pc, wardrobe, occasion, count, weather_data, categorized,
                   outfits, seen_combinations, outfit_history, faults,
                   user_id, user_preferences, result>>

\* an iteration that accepts: signature recorded, outfit scored and appended
GS_AttemptAccepted ==
    /\ op = "generate_suggestions" /\ pc = "loop" /\ LoopCondition
    /\ \E o \in ValidOutfits, style_score \in StyleDraws :
          /\ Signature(o) \notin seen_combinations
          /\ seen_combinations' = AddSeen(seen_combinations, Signature(o))
          /\ outfits' = Append(outfits, ScoredOutfit(o, occasion, weather_data, style_score))
    /\ attempts' = attempts + 1
    /\ UNCHANGED <<cache, now, users, sent, running, args, clip_service_instance, clip_model, loads, op, pc, wardrobe, occasion, count, weather_data, categorized,
                   outfit_history, faults, user_id, user_preferences, result>>

\* key=lambda x: x.get('combined_score', 0)
SuggestSortKey(x) ==
    Get(x, "combined_score", <<0, 1>>)

\* lines 328-332: sort by combined score, return outfits[:count]
GS_Return ==
    /\ op = "generate_suggestions" /\ pc = "loop" /\ ~LoopCondition
    /\ outfits' = SortDesc(outfits, [i \in DOMAIN outfits |-> SuggestSortKey(outfits[i])])
    /\ result' = Take(outfits', count)
    /\ pc' = "done"
    /\ UNCHANGED <<cache, now, users, sent, running, args, clip_service_instance, clip_model, loads, op, wardrobe, occasion, count, weather_data, categorized,
                   seen_combinations, attempts, outfit_history, faults,
                   user_id, user_preferences>>

NextSuggest ==
    \/ GS_EmptyWardrobe
    \/ GS_Start
    \/ GS_AttemptRejected
    \/ GS_AttemptDuplicate
    \/ GS_AttemptAccepted
    \/ GS_Return

SpecSuggest ==
    InitSuggest /\ [][NextSuggest]_vars

----------------------------------------------------------------------------
(* PersonalizedAIService: history preference miner.  A Python dict is a     *)
(* sequence of <<key, value>> pairs in insertion order.                     *)

Keys(d) ==
    {d[i][1] : i \in DOMAIN d}

Lookup(d, k) ==
    d[CHOOSE i \in DOMAIN d : d[i][1] = k][2]

\* d[k] += n on a defaultdict(int) or defaultdict(float)
AddTo(d, k, n) ==
    IF k \in Keys(d)
    THEN [i \in DOMAIN d |-> IF d[i][1] = k THEN <<k, d[i][2] + n>> ELSE d[i]]
    ELSE Append(d, <<k, n>>)

\* d[k].append(x) on a defaultdict(list)
AppendTo(d, k, x) ==
    IF k \in Keys(d)
    THEN [i \in DOMAIN d |-> IF d[i][1] = k THEN <<k, Append(d[i][2], x)>> ELSE d[i]]
    ELSE Append(d, <<k, <<x>>>>)

RECURSIVE Strip(_)
\* str.strip() for blanks
Strip(s) ==
    IF Len(s) = 0 THEN s
    ELSE IF SubSeq(s, 1, 1) = " " THEN Strip(SubSeq(s, 2, Len(s)))
    ELSE IF SubSeq(s, Len(s), Len(s)) = " " THEN Strip(SubSeq(s, 1, Len(s) - 1))
    ELSE s

\* one outfit_history document; rating 0 stands for no rating (None and 0
\* are both false in `if rating`), item id 0 for a missing id
Entry(items, fav, rat, occ) ==
    [outfit_items |-> items, is_favorite |-> fav, rating |-> rat, occasion |-> occ]

Snap(i, cat, col) ==
    [id |-> i, category |-> cat, color |-> col]

HistoryEntries ==
    { Entry(<<Snap(1, "tops", "white"), Snap(3, "bottoms", "light blue"),
              Snap(5, "shoes", "black")>>, TRUE, 0, "casual"),
      Entry(<<Snap(4, "dresses", "Red"), Snap(5, "shoes", "black")>>, FALSE, 4, "formal"),
      Entry(<<Snap(6, "outerwear", " navy "), Snap(0, "", "")>>, FALSE, 0, "casual"),
      Entry(<<>>, FALSE, 5, "party") }

\* longest history explored
MaxHistory == 2

Histories ==
    UNION { [1..n -> HistoryEntries] : n \in 0..MaxHistory }

\* outfit_score = 5.0 if is_favorite else (float(rating) if rating else 3.0)
OutfitScore(outfit) ==
    IF outfit.is_favorite THEN 5
    ELSE IF outfit.rating # 0 THEN outfit.rating
    ELSE 3

EmptyPreferences ==
    [favorite_colors          |-> <<>>,
     preferred_combinations   |-> <<>>,
     most_worn_items          |-> <<>>,
     occasion_preferences     |-> <<>>,
     category_wear_frequency  |-> <<>>,
     most_worn_categories     |-> <<>>,
     average_ratings          |-> <<>>,
     color_ratings            |-> <<>>,
     weather_preferences      |-> <<>>]

\* the counters of _analyze_user_history before any entry is read
EmptyTally ==
    [color_scores |-> <<>>, category_combinations |-> <<>>, item_wear_count |-> <<>>,
     occasion_count |-> <<>>, color_ratings |-> <<>>, category_wear_frequency |-> <<>>,
     outfit_categories |-> <<>>]

\* the body of `for item in items`
TallyItem(t, item, outfit_score, rating) ==
    LET color    == Strip(Lower(item.color))
        category == Strip(Lower(item.category))
        item_id  == item.id
        counted  == color # "" /\ color \notin {"", "none", "unknown"}
        t1 == IF counted
              THEN [t EXCEPT !.color_scores =
                                 AddTo(@, color, outfit_score),
                             !.color_ratings =
                                 IF rating # 0
                                 THEN AppendTo(@, color, rating)
                                 ELSE @]
              ELSE t
        t2 == IF category # ""
              THEN [t1 EXCEPT !.outfit_categories = Append(@, category),
                              !.category_wear_frequency =
                                  AddTo(@, category, 1)]
              ELSE t1
    IN  IF item_id # 0
        THEN [t2 EXCEPT !.item_wear_count = AddTo(@, item_id, 1)]
        ELSE t2

RECURSIVE TallyItems(_, _, _, _)
\* `for item in items`, from the first item to the last
TallyItems(t, items, outfit_score, rating) ==
    IF items = <<>> THEN t
    ELSE TallyItems(TallyItem(t, Head(items), outfit_score, rating), Tail(items),
                    outfit_score, rating)

\* "+".join(sorted(set(categories))): one string per set of categories, so
\* the set itself stands for the string
Combo(categories) ==
    Range(categories)

\* the body of `for outfit in outfit_history`
TallyOutfit(t, outfit) ==
    IF outfit.outfit_items = <<>> THEN t
    ELSE LET outfit_score == OutfitScore(outfit)
             t0 == [t EXCEPT !.occasion_count =
                                 AddTo(@, outfit.occasion, 1),
                             !.outfit_categories = <<>>]
             t1 == TallyItems(t0, outfit.outfit_items, outfit_score, outfit.rating)
         IN  IF Len(t1.outfit_categories) >= 2
             THEN [t1 EXCEPT !.category_combinations =
                                 AddTo(@, Combo(t1.outfit_categories), 1)]
             ELSE t1

RECURSIVE TallyOutfits(_, _)
\* `for outfit in outfit_history`, from the first entry to the last
TallyOutfits(t, history) ==
    IF history = <<>> THEN t
    ELSE TallyOutfits(TallyOutfit(t, Head(history)), Tail(history))

\* sorted(d.items(), key=lambda x: x[1], reverse=True)[:n]
TopByValue(d, n) ==
    Take(SortDesc(d, [i \in DOMAIN d |-> <<d[i][2], 1>>]), n)

KeysOf(d) ==
    [i \in DOMAIN d |-> d[i][1]]

TopColors == 10
TopCombinations == 5
TopItems == 10
TopCategories == 5

AnalyzeUserHistory(history) ==
    IF history = <<>> THEN EmptyPreferences
    ELSE LET t == TallyOutfits(EmptyTally, history)
             total_occasions == SumInts([i \in DOMAIN t.occasion_count |-> t.occasion_count[i][2]])
         IN  [favorite_colors         |-> KeysOf(TopByValue(t.color_scores, TopColors)),
              preferred_combinations  |-> KeysOf(TopByValue(t.category_combinations, TopCombinations)),
              most_worn_items         |-> TopByValue(t.item_wear_count, TopItems),
              occasion_preferences    |->
                  IF total_occasions > 0
                  THEN [i \in DOMAIN t.occasion_count |->
                           <<t.occasion_count[i][1], Rat(t.occasion_count[i][2], total_occasions)>>]
                  ELSE <<>>,
              category_wear_frequency |-> t.category_wear_frequency,
              most_worn_categories    |-> TopByValue(t.category_wear_frequency, TopCategories),
              average_ratings         |->
                  [i \in DOMAIN t.color_ratings |->
                      <<t.color_ratings[i][1],
                        Rat(SumInts(t.color_ratings[i][2]), Len(t.color_ratings[i][2]))>>],
              color_ratings           |-> t.color_ratings,
              weather_preferences     |-> <<>>]

----------------------------------------------------------------------------
(* PersonalizedAIService: candidates, base score, personalized score *)

\* the bucket the if/elif chain of PersonalizedAIService._categorize_items
\* appends to
PBucketOf(item) ==
    LET category  == Lower(item.category)
        item_name == Lower(item.item_name)
    IN  IF WordHit({"shirt", "t-shirt", "blouse", "top", "sweater", "hoodie", "jersey", "polo", "tank"},
                   category, item_name) THEN "tops"
        ELSE IF WordHit({"jeans", "pants", "trousers", "skirt", "shorts", "leggings", "chinos"},
                   category, item_name) THEN "bottoms"
        ELSE IF WordHit({"dress", "jumpsuit", "romper", "gown"},
                   category, item_name) THEN "dresses"
        ELSE IF WordHit({"jacket", "coat", "blazer", "cardigan", "vest", "parka", "outerwear"},
                   category, item_name) THEN "outerwear"
        ELSE IF WordHit({"shoes", "sneakers", "boots", "sandals", "heels", "flats", "loafers"},
                   category, item_name) THEN "shoes"
        ELSE IF WordHit({"belt", "scarf", "hat", "bag", "wallet", "watch", "jewelry", "accessories"},
                   category, item_name) THEN "accessories"
        ELSE IF category \in BucketNames THEN category
        ELSE "tops"

PCategorizeItems(items) ==
    [b \in BucketNames |-> SelectSeq(items, LAMBDA item : PBucketOf(item) = b)]

\* _calculate_style_score, in points
CalculateStyleScore(items, wd, occ) ==
    LET colors    == LoweredField(items, "color")
        materials == LoweredField(items, "material")
        color_part ==
            IF colors # <<>> /\ Cardinality(Range(colors)) <= 2 THEN 20 ELSE 0
        weather_part ==
            IF wd = None THEN 0
            ELSE IF wd.temperature < 10 THEN
                (IF \E i \in DOMAIN materials :
                       materials[i] \in {"wool", "fleece", "down", "thermal", "knit"}
                 THEN 15 ELSE 0)
            ELSE IF wd.temperature > 25 THEN
                (IF \E i \in DOMAIN materials :
                       materials[i] \in {"cotton", "linen", "breathable", "light"}
                 THEN 15 ELSE 0)
            ELSE 0
        o == Lower(occ)
        occasion_keywords ==
            CASE o = "formal"   -> {"suit", "dress", "blazer", "tie", "heels"}
              [] o = "casual"   -> {"jeans", "t-shirt", "sneakers", "shorts"}
              [] o = "business" -> {"trousers", "shirt", "blazer", "slacks"}
              [] OTHER          -> {}
        occasion_part ==
            10 * Cardinality({i \in DOMAIN items :
                                 AnyIn(occasion_keywords, Lower(items[i].item_name))})
    IN  MinInt(50 + color_part + weather_part + occasion_part, 100)

\* tops[:5], bottoms[:5], shoes[:3], dresses[:5]
MaxTops == 5
MaxBottoms == 5
MaxShoes == 3
MaxDresses == 5

\* one candidate as _create_outfit_combinations builds it
Candidate(items, type, wd, occ) ==
    [items |-> items, type |-> type,
     style_score |-> <<CalculateStyleScore(items, wd, occ), 1>>]

\* for a in s1: for b in s2: ... in loop order
Product2(s1, s2) ==
    [k \in 1..(Len(s1) * Len(s2)) |->
        <<s1[((k - 1) \div Len(s2)) + 1], s2[((k - 1) % Len(s2)) + 1]>>]

CreateOutfitCombinations(c, wd, occ) ==
    LET tops    == Take(c["tops"], MaxTops)
        bottoms == Take(c["bottoms"], MaxBottoms)
        shoes   == Take(c["shoes"], MaxShoes)
        dresses == Take(c["dresses"], MaxDresses)
        tb      == Product2(tops, bottoms)
        tbs     == Product2(tb, shoes)
        ds      == Product2(dresses, shoes)
        separates ==
            IF c["tops"] # <<>> /\ c["bottoms"] # <<>> /\ c["shoes"] # <<>>
            THEN [k \in DOMAIN tbs |->
                     Candidate(<<tbs[k][1][1], tbs[k][1][2], tbs[k][2]>>, "separates", wd, occ)]
            ELSE <<>>
        dress_outfits ==
            IF c["dresses"] # <<>> /\ c["shoes"] # <<>>
            THEN [k \in DOMAIN ds |-> Candidate(<<ds[k][1], ds[k][2]>>, "dress_outfit", wd, occ)]
            ELSE <<>>
        outfits_built == separates \o dress_outfits
    IN  SortDesc(outfits_built, [i \in DOMAIN outfits_built |-> outfits_built[i].style_score])

\* variant: no clamp
Clamp100Missing(score) ==
    score

\* clamp of _calculate_personalized_score
Clamp100(score) ==
    RMin(RMax(score, <<0, 1>>), <<100, 1>>)

RECURSIVE RatingsOf(_, _)
\* [avg_ratings[color] for color in outfit_colors if color in avg_ratings]
RatingsOf(colors, avg_ratings) ==
    IF colors = <<>> THEN <<>>
    ELSE IF Head(colors) \in Keys(avg_ratings)
         THEN <<Lookup(avg_ratings, Head(colors))>> \o RatingsOf(Tail(colors), avg_ratings)
         ELSE RatingsOf(Tail(colors), avg_ratings)

\* _calculate_personalized_score, in points
CalculatePersonalizedScore(outfit, prefs, occ) ==
    LET items == outfit.items
        favorite_colors == Range(prefs.favorite_colors)
        outfit_colors == LoweredField(items, "color")
        matching_colors ==
            Cardinality({i \in DOMAIN outfit_colors : outfit_colors[i] \in favorite_colors})
        color_bonus ==
            IF favorite_colors # {} /\ outfit_colors # <<>>
            THEN RMul(Rat(matching_colors, Len(outfit_colors)), <<30, 1>>)
            ELSE <<0, 1>>
        outfit_categories == LoweredField(items, "category")
        combo_bonus ==
            IF prefs.preferred_combinations # <<>> /\ Len(outfit_categories) >= 2
               /\ Combo(outfit_categories) \in Range(prefs.preferred_combinations)
            THEN <<20, 1>> ELSE <<0, 1>>
        most_worn == Keys(prefs.most_worn_items)
        worn_items_in_outfit ==
            Cardinality({i \in DOMAIN items : ItemId(items[i]) \in most_worn})
        wear_bonus ==
            IF most_worn # {}
            THEN RMul(Rat(worn_items_in_outfit, Len(items)), <<20, 1>>)
            ELSE <<0, 1>>
        occasion_bonus ==
            IF Lower(occ) \in Keys(prefs.occasion_preferences)
            THEN RMul(Lookup(prefs.occasion_preferences, Lower(occ)), <<15, 1>>)
            ELSE <<0, 1>>
        avg_ratings == prefs.average_ratings
        color_ratings == RatingsOf(outfit_colors, avg_ratings)
        rating_bonus ==
            IF avg_ratings # <<>> /\ color_ratings # <<>>
            THEN LET avg_color_rating == RMul(SumSeq(color_ratings), <<1, Len(color_ratings)>>)
                 IN  RMul(RMul(RSub(avg_color_rating, <<1, 1>>), <<1, 4>>), <<15, 1>>)
            ELSE <<0, 1>>
    IN  IF items = <<>> \/ prefs = None THEN <<50, 1>>
        ELSE Clamp100(RAdd(<<50, 1>>,
                 RAdd(RAdd(color_bonus, combo_bonus),
                      RAdd(wear_bonus, RAdd(occasion_bonus, rating_bonus)))))

\* variant: the two weights exchanged
BlendSwapped(base_score, personalized_score) ==
    RAdd(RMul(base_score, <<6, 10>>), RMul(personalized_score, <<4, 10>>))

\* (base_score * 0.4) + (personalized_score * 0.6)
Blend(base_score, personalized_score) ==
    RAdd(RMul(base_score, <<4, 10>>), RMul(personalized_score, <<6, 10>>))

\* variant: any profile counts, as `if user_preferences:` would have it
PersonalizationActiveAnyProfile(prefs) ==
    prefs # None

\* user_preferences and len(user_preferences.get("favorite_colors", [])) > 0
PersonalizationActive(prefs) ==
    prefs # None /\ Len(prefs.favorite_colors) > 0

\* the body of `for outfit in outfits` in the personalized branch
Personalize(outfit, prefs, occ) ==
    LET personalized_score == CalculatePersonalizedScore(outfit, prefs, occ)
        base_score         == Get(outfit, "style_score", <<50, 1>>)
        combined_score     == Blend(base_score, personalized_score)
    IN  [items              |-> outfit.items,
         type               |-> outfit.type,
         personalized_score |-> personalized_score,
         history_based      |-> TRUE,
         combined_score     |-> combined_score,
         style_score        |-> combined_score]

\* key=lambda x: x.get("combined_score", x.get("style_score", 0))
RerankKey(x) ==
    Get(x, "combined_score", Get(x, "style_score", <<0, 1>>))

\* lines 328-351: score and re-sort, or flag every outfit history_based False
Rerank(candidates, prefs, occ) ==
    IF PersonalizationActive(prefs)
    THEN LET scored == [i \in DOMAIN candidates |-> Personalize(candidates[i], prefs, occ)]
         IN  SortDesc(scored, [i \in DOMAIN scored |-> RerankKey(scored[i])])
    ELSE [i \in DOMAIN candidates |->
             [items |-> candidates[i].items, type |-> candidates[i].type,
              style_score |-> candidates[i].style_score, history_based |-> FALSE]]

\* outfits[:5]
TopOutfits == 5

\* _generate_recommendations up to the re-ranking: the local list `outfits`;
\* specific is the set of requested identifiers, empty when none was given.
\* The reasoning text added to the first ten outfits is left out: nothing
\* reads it.
RankedOutfits(items, wd, occ, specific, prefs) ==
    LET wardrobe_items == IF specific # {}
                          THEN SelectSeq(items, LAMBDA item : ItemId(item) \in specific)
                          ELSE items
    IN  Rerank(CreateOutfitCombinations(PCategorizeItems(wardrobe_items), wd, occ),
               prefs, occ)

\* the dictionary _generate_recommendations returns
Recommendations(ranked, wd, occ, prefs) ==
    [outfits                |-> Take(ranked, TopOutfits),
     total_combinations     |-> Len(ranked),
     occasion               |-> occ,
     weather_considered     |-> wd # None,
     personalization_active |-> PersonalizationActive(prefs)]

----------------------------------------------------------------------------
(* PersonalizedAIService.get_personalized_recommendations and its route *)

BlackTee == Item(9, "tops", "black t-shirt", "black", "casual", "cotton", "")
Chinos   == Item(10, "bottoms", "navy chinos", "navy", "business", "cotton", "")
Sneakers == Item(11, "shoes", "white sneakers", "white", "casual", "canvas", "")

RecWardrobes ==
    { <<>>,
      <<WoolCoat, Belt>>,
      <<WhiteShirt, BlueJeans, BlackBoots>>,
      <<WhiteShirt, BlackTee, BlueJeans, Chinos, BlackBoots, Sneakers, RedGown, Poncho>> }

\* the occasion argument; "" stands for an omitted one
RecOccasions ==
    {"", "casual", "Formal"}

\* specific_items; {} stands for an omitted or empty list
SpecificItems ==
    { {}, {1, 3, 5, 11} }

\* which collaborators fail during one request
FaultSets ==
    { {}, {"db"}, {"user_missing"}, {"user_raises"}, {"wardrobe_raises"},
      {"history_raises"}, {"weather_raises"}, {"history_raises", "weather_raises"} }

Failure(msg) ==
    [success |-> FALSE, error |-> msg]

InitRec ==
    /\ op = "get_personalized_recommendations"
    /\ args = None
    /\ clip_service_instance = None
    /\ clip_model = None
    /\ loads = 0
    /\ cache = <<>>
    /\ now = 0
    /\ users = <<>>
    /\ sent = <<>>
    /\ running = FALSE
    /\ pc = "start"
    /\ wardrobe \in RecWardrobes
    /\ occasion \in RecOccasions
    /\ count = 0
    /\ weather_data = None
    /\ categorized = NoCategories
    /\ outfits = <<>>
    /\ seen_combinations = {}
    /\ attempts = 0
    /\ outfit_history \in Histories
    /\ faults \in FaultSets
    /\ user_id = TRUE
    /\ user_preferences = None
    /\ result = <<>>

\* variant: an empty wardrobe is not checked for
FetchFailureEmptyUnchecked ==
    IF "db" \in faults THEN Failure("Database connection failed: unavailable")
    ELSE IF "user_missing" \in faults THEN Failure("User not found")
    ELSE IF "user_raises" \in faults THEN Failure("Error fetching user: timeout")
    ELSE IF "wardrobe_raises" \in faults THEN Failure("Error fetching wardrobe: timeout")
    ELSE None

\* variant: a failed history read ends the request
FetchFailureHistoryFatal ==
    IF "db" \in faults THEN Failure("Database connection failed: unavailable")
    ELSE IF "user_missing" \in faults THEN Failure("User not found")
    ELSE IF "user_raises" \in faults THEN Failure("Error fetching user: timeout")
    ELSE IF "wardrobe_raises" \in faults THEN Failure("Error fetching wardrobe: timeout")
    ELSE IF wardrobe = <<>>
        THEN [success |-> FALSE, error |-> "No clothing items in wardrobe",
              suggestion |-> "Add some items to your wardrobe first!"]
    ELSE IF "history_raises" \in faults THEN Failure("Error fetching history: timeout")
    ELSE None

\* the error result of lines 53-91, if the request ends there
FetchFailure ==
    IF "db" \in faults THEN Failure("Database connection failed: unavailable")
    ELSE IF "user_missing" \in faults THEN Failure("User not found")
    ELSE IF "user_raises" \in faults THEN Failure("Error fetching user: timeout")
    ELSE IF "wardrobe_raises" \in faults THEN Failure("Error fetching wardrobe: timeout")
    ELSE IF wardrobe = <<>>
        THEN [success |-> FALSE, error |-> "No clothing items in wardrobe",
              suggestion |-> "Add some items to your wardrobe first!"]
    ELSE None

\* lines 53-91: database, user or wardrobe unavailable, or wardrobe empty
PR_FetchFails ==
    /\ op = "get_personalized_recommendations" /\ pc = "start"
    /\ FetchFailure # None
    /\ result' = FetchFailure
    /\ pc' = "returned"
    /\ UNCHANGED <<cache, now, users, sent, running, args, clip_service_instance, clip_model, loads, op, wardrobe, occasion, count, weather_data, categorized, outfits,
                   seen_combinations, attempts, outfit_history, faults, user_id,
                   user_preferences>>

\* lines 53-120: user and wardrobe read; history read, empty when the read
\* raises; weather looked up when a location (loc) was given, None when the
\* lookup raises or has no data
PR_Fetch ==
    /\ op = "get_personalized_recommendations" /\ pc = "start"
    /\ FetchFailure = None
    /\ outfit_history' = IF "history_raises" \in faults THEN <<>> ELSE outfit_history
    /\ \E loc \in BOOLEAN :
          IF loc /\ "weather_raises" \notin faults
          THEN weather_data' \in WeatherSnapshots \cup {None}
          ELSE weather_data' = None
    /\ pc' = "analyze"
    /\ UNCHANGED <<cache, now, users, sent, running, args, clip_service_instance, clip_model, loads, op, wardrobe, occasion, count, categorized, outfits,
                   seen_combinations, attempts, faults, user_id, user_preferences, result>>

\* lines 126-130
PR_Analyze ==
    /\ op = "get_personalized_recommendations" /\ pc = "analyze"
    /\ user_preferences' = AnalyzeUserHistory(outfit_history)
    /\ pc' = "generate"
    /\ UNCHANGED <<cache, now, users, sent, running, args, clip_service_instance, clip_model, loads, op, wardrobe, occasion, count, weather_data, categorized, outfits,
                   seen_combinations, attempts, outfit_history, faults, user_id, result>>

\* occasion or "casual"
OccasionOrCasual(occ) ==
    IF occ = "" THEN "casual" ELSE occ

\* lines 134-160: recommendations generated, success result built
PR_Generate ==
    /\ op = "get_personalized_recommendations" /\ pc = "generate"
    /\ \E specific \in SpecificItems :
          outfits' = RankedOutfits(wardrobe, weather_data, OccasionOrCasual(occasion),
                                   specific, user_preferences)
    /\ result' = [success         |-> TRUE,
                  recommendations |-> Recommendations(outfits', weather_data,
                                          OccasionOrCasual(occasion), user_preferences),
                  weather         |-> weather_data,
                  personalization_data |->
                      [history_entries |-> Len(outfit_history),
                       favorite_colors |-> Take(user_preferences.favorite_colors, 5),
                       most_worn_categories |-> user_preferences.most_worn_categories]]
    /\ pc' = "returned"
    /\ UNCHANGED <<cache, now, users, sent, running, args, clip_service_instance, clip_model, loads, op, wardrobe, occasion, count, weather_data, categorized,
                   seen_combinations, attempts, outfit_history, faults, user_id,
                   user_preferences>>

\* the route's answer to an unsuccessful service result (lines 46-77)
RouteFailure(res, occ) ==
    IF Contains(res.error, "No clothing items") \/ Contains(Lower(res.error), "wardrobe")
    THEN [success    |-> FALSE,
          error      |-> res.error,
          suggestion |-> Get(res, "suggestion", "Add items to your wardrobe first!"),
          recommendations |-> [outfits |-> <<>>, total_combinations |-> 0,
                               occasion |-> OccasionOrCasual(occ)],
          weather    |-> None]
    ELSE [success |-> FALSE,
          error   |-> res.error,
          recommendations |-> [outfits |-> <<>>, total_combinations |-> 0,
                               occasion |-> OccasionOrCasual(occ),
                               weather_considered |-> FALSE]]

\* GET /ai-recommendations/personalized after the service call
PR_Route ==
    /\ op = "get_personalized_recommendations" /\ pc = "returned"
    /\ result' = IF ~result.success THEN RouteFailure(result, occasion) ELSE result
    /\ pc' = "done"
    /\ UNCHANGED <<cache, now, users, sent, running, args, clip_service_instance, clip_model, loads, op, wardrobe, occasion, count, weather_data, categorized, outfits,
                   seen_combinations, attempts, outfit_history, faults, user_id,
                   user_preferences>>

NextRec ==
    \/ PR_FetchFails
    \/ PR_Fetch
    \/ PR_Analyze
    \/ PR_Generate
    \/ PR_Route

SpecRec ==
    InitRec /\ [][NextRec]_vars

----------------------------------------------------------------------------
(* PersonalizedAIService.analyze_outfit_coherence *)

\* a float result, where the alternative is None
Some(v) ==
    [value |-> v]

\* the outfit_items argument
OutfitItemLists ==
    { <<>>,
      <<WhiteShirt, BlueJeans, BlackBoots>>,
      <<RedGown, BlackBoots>> }

InitAnalyze ==
    /\ op = "analyze_outfit_coherence"
    /\ args = None
    /\ clip_service_instance = None
    /\ clip_model = None
    /\ loads = 0
    /\ cache = <<>>
    /\ now = 0
    /\ users = <<>>
    /\ sent = <<>>
    /\ running = FALSE
    /\ pc = "start"
    /\ wardrobe = <<>>
    /\ occasion \in Occasions
    /\ count = 0
    /\ weather_data \in WeatherSnapshots \cup {None}
    /\ categorized = NoCategories
    /\ outfits = <<>>
    /\ seen_combinations = {}
    /\ attempts = 0
    /\ outfit_history \in Histories
    /\ faults \in {{}, {"history_raises"}}
    /\ user_id \in BOOLEAN
    /\ user_preferences = None
    /\ result = <<>>

\* lines 712-729: the profile, None without a user_id or when the read raises
CoherencePreferences ==
    IF user_id /\ "history_raises" \notin faults
    THEN AnalyzeUserHistory(outfit_history)
    ELSE None

\* `if user_preferences:` a dictionary with keys is true, None is false
Truthy(prefs) ==
    prefs # None

\* lines 731-765, for the outfit_items given; scores are round(x, 1), held as
\* integer tenths.  reasoning and suggestions are texts nothing reads.
CoherenceResult(outfit_items, wd, occ, prefs) ==
    LET base_score  == <<CalculateStyleScore(outfit_items, wd, occ), 1>>
        outfit_dict == [items |-> outfit_items, type |-> "custom", style_score |-> base_score]
        personalized_score == CalculatePersonalizedScore(outfit_dict, prefs, occ)
        final_score == IF Truthy(prefs) THEN Blend(base_score, personalized_score)
                       ELSE base_score
    IN  [score              |-> RoundTo(final_score, 10),
         base_score         |-> RoundTo(base_score, 10),
         personalized_score |-> IF Truthy(prefs) THEN Some(RoundTo(personalized_score, 10))
                                ELSE None,
         rating             |-> IF RLe(<<80, 1>>, final_score) THEN "excellent"
                                ELSE IF RLe(<<60, 1>>, final_score) THEN "good"
                                ELSE "fair",
         personalization_used |-> prefs # None]

AO_Analyze ==
    /\ op = "analyze_outfit_coherence" /\ pc = "start"
    /\ user_preferences' = CoherencePreferences
    /\ \E outfit_items \in OutfitItemLists :
          result' = CoherenceResult(outfit_items, weather_data, occasion, user_preferences')
    /\ pc' = "done"
    /\ UNCHANGED <<cache, now, users, sent, running, args, clip_service_instance, clip_model, loads, op, wardrobe, occasion, count, weather_data, categorized, outfits,
                   seen_combinations, attempts, outfit_history, faults, user_id>>

NextAnalyze ==
    AO_Analyze

SpecAnalyze ==
    InitAnalyze /\ [][NextAnalyze]_vars

----------------------------------------------------------------------------
(* Both outfit builders: a request to either service *)

InitOutfits ==
    InitSuggest \/ InitRec

NextOutfits ==
    NextSuggest \/ NextRec

SpecOutfits ==
    InitOutfits /\ [][NextOutfits]_vars

----------------------------------------------------------------------------
(* PersonalizedAIService._generate_recommendations for a user whose        *)
(* recorded outfits are all favourites that contain navy                   *)

NavyTee  == Item(12, "tops", "t-shirt", "navy", "casual", "cotton", "")
GreenTee == Item(13, "tops", "t-shirt", "green", "casual", "cotton", "")

\* wardrobes holding the two tops that differ in colour only, in both orders
NavyWardrobes ==
    { <<GreenTee, NavyTee, BlueJeans, BlackBoots>>,
      <<NavyTee, GreenTee, BlueJeans, BlackBoots>>,
      <<GreenTee, NavyTee, BlueJeans, Sneakers, BlackBoots>> }

\* favourited outfit_history documents, each with a navy item
NavyEntries ==
    { Entry(<<Snap(14, "tops", "navy"), Snap(3, "bottoms", "light blue"),
              Snap(5, "shoes", "black")>>, TRUE, 5, "casual"),
      Entry(<<Snap(6, "outerwear", "navy")>>, TRUE, 0, "casual"),
      Entry(<<Snap(12, "tops", "Navy"), Snap(3, "bottoms", "light blue")>>, TRUE, 0, "formal"),
      Entry(<<Snap(10, "bottoms", "navy"), Snap(11, "shoes", "white")>>, TRUE, 1, "casual") }

NavyHistories ==
    UNION { [1..n -> NavyEntries] : n \in 1..MaxHistory }

InitNavy ==
    /\ op = "_generate_recommendations"
    /\ args = None
    /\ clip_service_instance = None
    /\ clip_model = None
    /\ loads = 0
    /\ cache = <<>>
    /\ now = 0
    /\ users = <<>>
    /\ sent = <<>>
    /\ running = FALSE
    /\ pc = "analyze"
    /\ wardrobe \in NavyWardrobes
    /\ occasion \in Occasions
    /\ count = 0
    /\ weather_data \in WeatherSnapshots \cup {None}
    /\ categorized = NoCategories
    /\ outfits = <<>>
    /\ seen_combinations = {}
    /\ attempts = 0
    /\ outfit_history \in NavyHistories
    /\ faults = {}
    /\ user_id = TRUE
    /\ user_preferences = None
    /\ result = <<>>

\* get_personalized_recommendations line 120: the profile is mined
NV_Analyze ==
    /\ op = "_generate_recommendations" /\ pc = "analyze"
    /\ user_preferences' = AnalyzeUserHistory(outfit_history)
    /\ pc' = "generate"
    /\ UNCHANGED <<cache, now, users, sent, running, args, clip_service_instance, clip_model, loads, op, wardrobe, occasion,
                   count, weather_data, categorized, outfits, seen_combinations, attempts,
                   outfit_history, faults, user_id, result>>

\* _generate_recommendations: candidates built, scored, re-ranked, cut to 5
NV_Generate ==
    /\ op = "_generate_recommendations" /\ pc = "generate"
    /\ outfits' = RankedOutfits(wardrobe, weather_data, occasion, {}, user_preferences)
    /\ result' = Recommendations(outfits', weather_data, occasion, user_preferences)
    /\ pc' = "done"
    /\ UNCHANGED <<cache, now, users, sent, running, args, clip_service_instance, clip_model, loads, op, wardrobe, occasion,
                   count, weather_data, categorized, seen_combinations, attempts,
                   outfit_history, faults, user_id, user_preferences>>

NextNavy ==
    \/ NV_Analyze
    \/ NV_Generate

SpecNavy ==
    InitNavy /\ [][NextNavy]_vars

----------------------------------------------------------------------------
(* Similarity search: CLIPService.find_similar_items and                   *)
(* FashionAIService.find_similar_items.  A vector is a sequence of         *)
(* rationals; an item's embedding is Some(vector) or None.                 *)

\* float('nan'): what numpy leaves after 0.0 / 0.0
NaN ==
    <<0, 0>>

\* np.dot of two vectors of one shape
Dot(a, b) ==
    SumSeq([i \in DOMAIN a |-> RMul(a[i], b[i])])

\* np.linalg.norm; the vectors explored have rational norms
Norm(v) ==
    LET sq == Dot(v, v)
    IN  <<CHOOSE r \in 0..sq[1] : r * r = sq[1], CHOOSE r \in 1..sq[2] : r * r = sq[2]>>

\* v / n for n # 0
Scale(v, n) ==
    [i \in DOMAIN v |-> Rat(v[i][1] * n[2], v[i][2] * n[1])]

\* CLIPService.compute_similarity: both vectors divided by their norms, then
\* np.dot; a shape mismatch raises inside the try and 0.0 is returned; a
\* vector of norm 0 becomes all-NaN and so does the product
ComputeSimilarity(embedding1, embedding2) ==
    IF Len(embedding1) # Len(embedding2) THEN <<0, 1>>
    ELSE IF embedding1 = <<>> THEN <<0, 1>>
    ELSE IF Norm(embedding1)[1] = 0 \/ Norm(embedding2)[1] = 0 THEN NaN
    ELSE Dot(Scale(embedding1, Norm(embedding1)), Scale(embedding2, Norm(embedding2)))

\* variant: the threshold itself is excluded
AtLeastStrict(similarity, min_similarity) ==
    similarity # NaN /\ RLt(min_similarity, similarity)

\* similarity >= min_similarity on floats: False for NaN
AtLeast(similarity, min_similarity) ==
    similarity # NaN /\ RLe(min_similarity, similarity)

RECURSIVE KeepSimilar(_, _, _)
\* the loop over wardrobe_items: sims[i] is Some(similarity of item i), or
\* None for an item without embedding; a kept item is copied with
\* similarity_score = round(similarity, 3), held in thousandths
KeepSimilar(items, sims, min_similarity) ==
    IF items = <<>> THEN <<>>
    ELSE LET rest == KeepSimilar(Tail(items), Tail(sims), min_similarity)
         IN  IF Head(sims) # None /\ AtLeast(Head(sims).value, min_similarity)
             THEN <<[id |-> Head(items).id, embedding |-> Head(items).embedding,
                     similarity_score |-> RoundTo(Head(sims).value, 1000)]>> \o rest
             ELSE rest

\* variant: the slice keeps one item more
SliceToOneMore(s, top_k) ==
    IF top_k >= 0 THEN SubSeq(s, 1, MinInt(top_k + 1, Len(s)))
    ELSE SubSeq(s, 1, Len(s) + top_k)

\* s[:top_k]; a negative top_k counts from the end
SliceTo(s, top_k) ==
    IF top_k >= 0 THEN SubSeq(s, 1, MinInt(top_k, Len(s)))
    ELSE SubSeq(s, 1, Len(s) + top_k)

\* similarities.sort(key=lambda x: x['similarity_score'], reverse=True)
SortBySimilarity(kept) ==
    SortDesc(kept, [i \in DOMAIN kept |-> <<kept[i].similarity_score, 1>>])

\* CLIPService.find_similar_items
CLIPFindSimilarItems(query_embedding, wardrobe_items, top_k, min_similarity) ==
    LET sims == [i \in DOMAIN wardrobe_items |->
                    IF wardrobe_items[i].embedding = None THEN None
                    ELSE Some(ComputeSimilarity(query_embedding,
                                                wardrobe_items[i].embedding.value))]
    IN  SliceTo(SortBySimilarity(KeepSimilar(wardrobe_items, sims, min_similarity)), top_k)

\* FashionAIService.find_similar_items: np.dot without normalising; a shape
\* mismatch raises out of the loop and the except returns []
FashionFindSimilarItems(query_embedding, wardrobe_items, top_k, min_similarity) ==
    LET raises == \E i \in DOMAIN wardrobe_items :
                      /\ wardrobe_items[i].embedding # None
                      /\ Len(wardrobe_items[i].embedding.value) # Len(query_embedding)
        sims == [i \in DOMAIN wardrobe_items |->
                    IF wardrobe_items[i].embedding = None THEN None
                    ELSE Some(Dot(query_embedding, wardrobe_items[i].embedding.value))]
    IN  IF raises THEN <<>>
        ELSE SliceTo(SortBySimilarity(KeepSimilar(wardrobe_items, sims, min_similarity)),
                     top_k)

\* stored embeddings: unit vectors as generate_embedding leaves them, or none
Embeddings ==
    { None,
      Some(<< <<1, 1>>, <<0, 1>> >>),
      Some(<< <<3, 5>>, <<4, 5>> >>),
      Some(<< <<-1, 1>>, <<0, 1>> >>) }

\* most items in one wardrobe
MaxItems == 3

\* wardrobes of items 1..n, each with any stored embedding
EmbeddedWardrobes ==
    UNION { { [i \in 1..n |-> [id |-> i, embedding |-> e[i]]] : e \in [1..n -> Embeddings] }
            : n \in 0..MaxItems }

\* query vectors: unit vectors, a vector of norm 0 and a vector of no
\* components
QueryEmbeddings ==
    { << <<1, 1>>, <<0, 1>> >>,
      << <<5, 13>>, <<12, 13>> >>,
      << <<0, 1>>, <<0, 1>> >>,
      << >> }

\* top_k arguments
TopKs ==
    -1..MaxItems

\* min_similarity arguments: -1, the default 0.2, 0.385, 1.01
MinSimilarities ==
    { <<-1, 1>>, <<1, 5>>, <<385, 1000>>, <<101, 100>> }

InitSimilar ==
    /\ op \in {"CLIPService.find_similar_items", "FashionAIService.find_similar_items"}
    /\ args \in [query_embedding : QueryEmbeddings, wardrobe_items : EmbeddedWardrobes,
                 top_k : TopKs, min_similarity : MinSimilarities]
    /\ clip_service_instance = None
    /\ clip_model = None
    /\ loads = 0
    /\ cache = <<>>
    /\ now = 0
    /\ users = <<>>
    /\ sent = <<>>
    /\ running = FALSE
    /\ pc = "start"
    /\ wardrobe = <<>>
    /\ occasion = ""
    /\ count = 0
    /\ weather_data = None
    /\ categorized = NoCategories
    /\ outfits = <<>>
    /\ seen_combinations = {}
    /\ attempts = 0
    /\ outfit_history = <<>>
    /\ faults = {}
    /\ user_id = FALSE
    /\ user_preferences = None
    /\ result = <<>>

\* one call of CLIPService.find_similar_items
FS_CLIP ==
    /\ op = "CLIPService.find_similar_items" /\ pc = "start"
    /\ result' = CLIPFindSimilarItems(args.query_embedding, args.wardrobe_items,
                                      args.top_k, args.min_similarity)
    /\ pc' = "done"
    /\ UNCHANGED <<cache, now, users, sent, running, args, clip_service_instance, clip_model, loads, op, wardrobe, occasion,
                   count, weather_data, categorized, outfits, seen_combinations, attempts,
                   outfit_history, faults, user_id, user_preferences>>

\* one call of FashionAIService.find_similar_items
FS_Fashion ==
    /\ op = "FashionAIService.find_similar_items" /\ pc = "start"
    /\ result' = FashionFindSimilarItems(args.query_embedding, args.wardrobe_items,
                                         args.top_k, args.min_similarity)
    /\ pc' = "done"
    /\ UNCHANGED <<cache, now, users, sent, running, args, clip_service_instance, clip_model, loads, op, wardrobe, occasion,
                   count, weather_data, categorized, outfits, seen_combinations, attempts,
                   outfit_history, faults, user_id, user_preferences>>

NextSimilar ==
    \/ FS_CLIP
    \/ FS_Fashion

SpecSimilar ==
    InitSimilar /\ [][NextSimilar]_vars

----------------------------------------------------------------------------
(* Loading of the embedding model.  Every caller is a coroutine of the one *)
(* event loop and none of the three loaders awaits between its test and    *)
(* its assignment, so each runs as one step; requests interleave between   *)
(* steps.                                                                  *)

\* most requests in one process lifetime
MaxRequests == 3

\* what a request needs: the CLIPService singleton (routes/clothing.py), an
\* image embedding from the FashionAIService singleton, or a FashionAIAgent
\* (routes/ai_recommendations.py, /style/profile)
RequestKinds ==
    {"get_clip_service", "generate_embedding", "FashionAIAgent"}

InitLoad ==
    /\ op = "load_model"
    /\ args \in [1..MaxRequests -> RequestKinds]
    /\ clip_service_instance = None
    /\ clip_model = None
    /\ loads = 0
    /\ cache = <<>>
    /\ now = 0
    /\ users = <<>>
    /\ sent = <<>>
    /\ running = FALSE
    /\ pc = [r \in 1..MaxRequests |-> "waiting"]
    /\ wardrobe = <<>>
    /\ occasion = ""
    /\ count = 0
    /\ weather_data = None
    /\ categorized = NoCategories
    /\ outfits = <<>>
    /\ seen_combinations = {}
    /\ attempts = 0
    /\ outfit_history = <<>>
    /\ faults = {}
    /\ user_id = FALSE
    /\ user_preferences = None
    /\ result = <<>>

\* CLIPService.__init__: clip.load runs once per construction
NewCLIPService ==
    [model |-> "ViT-B/32"]

\* get_clip_service: the instance is built when the global is None
LD_GetClipService(r) ==
    /\ op = "load_model" /\ pc[r] = "waiting" /\ args[r] = "get_clip_service"
    /\ IF clip_service_instance = None
       THEN clip_service_instance' = NewCLIPService /\ loads' = loads + 1
       ELSE UNCHANGED <<clip_service_instance, loads>>
    /\ pc' = [pc EXCEPT ![r] = "served"]
    /\ UNCHANGED <<cache, now, users, sent, running, args, clip_model, op, wardrobe, occasion, count, weather_data,
                   categorized, outfits, seen_combinations, attempts, outfit_history,
                   faults, user_id, user_preferences, result>>

\* FashionAIService._init_clip_model, called by generate_embedding: the
\* service's own model is loaded when self.clip_model is None
LD_InitClipModel(r) ==
    /\ op = "load_model" /\ pc[r] = "waiting" /\ args[r] = "generate_embedding"
    /\ IF clip_model = None
       THEN clip_model' = NewCLIPService /\ loads' = loads + 1
       ELSE UNCHANGED <<clip_model, loads>>
    /\ pc' = [pc EXCEPT ![r] = "served"]
    /\ UNCHANGED <<cache, now, users, sent, running, args, clip_service_instance, op, wardrobe, occasion, count,
                   weather_data, categorized, outfits, seen_combinations, attempts,
                   outfit_history, faults, user_id, user_preferences, result>>

\* FashionAIAgent.__init__: self.clip_service = CLIPService(), a new
\* instance for every agent, and the route builds an agent per request
LD_NewAgent(r) ==
    /\ op = "load_model" /\ pc[r] = "waiting" /\ args[r] = "FashionAIAgent"
    /\ loads' = loads + 1
    /\ pc' = [pc EXCEPT ![r] = "served"]
    /\ UNCHANGED <<cache, now, users, sent, running, args, clip_service_instance, clip_model, op, wardrobe, occasion,
                   count, weather_data, categorized, outfits, seen_combinations, attempts,
                   outfit_history, faults, user_id, user_preferences, result>>

NextLoad ==
    \E r \in 1..MaxRequests :
        \/ LD_GetClipService(r)
        \/ LD_InitClipModel(r)
        \/ LD_NewAgent(r)

SpecLoad ==
    InitLoad /\ [][NextLoad]_vars

----------------------------------------------------------------------------
(* OutfitService._calculate_color_score on its own *)

\* longest item list scored
MaxOutfitItems == 3

\* the colours the two lists of _calculate_color_score name
NamedColors ==
    NeutralColors \cup BrightColors

\* item lists whose every item has one of the named colours
ColoredItemLists ==
    UNION { [1..n -> [color : NamedColors]] : n \in 0..MaxOutfitItems }

InitColor ==
    /\ op = "_calculate_color_score"
    /\ args \in [items : ColoredItemLists]
    /\ clip_service_instance = None
    /\ clip_model = None
    /\ loads = 0
    /\ cache = <<>>
    /\ now = 0
    /\ users = <<>>
    /\ sent = <<>>
    /\ running = FALSE
    /\ pc = "start"
    /\ wardrobe = <<>>
    /\ occasion = ""
    /\ count = 0
    /\ weather_data = None
    /\ categorized = NoCategories
    /\ outfits = <<>>
    /\ seen_combinations = {}
    /\ attempts = 0
    /\ outfit_history = <<>>
    /\ faults = {}
    /\ user_id = FALSE
    /\ user_preferences = None
    /\ result = <<>>

\* one call of _calculate_color_score
CS_Call ==
    /\ op = "_calculate_color_score" /\ pc = "start"
    /\ result' = CalculateColorScore(args.items)
    /\ pc' = "done"
    /\ UNCHANGED <<cache, now, users, sent, running, args, clip_service_instance, clip_model, loads, op, wardrobe, occasion,
                   count, weather_data, categorized, outfits, seen_combinations, attempts,
                   outfit_history, faults, user_id, user_preferences>>

NextColor ==
    CS_Call

SpecColor ==
    InitColor /\ [][NextColor]_vars

----------------------------------------------------------------------------
(* PersonalizedAIService._analyze_user_history on its own *)

\* further outfit_history documents: a colour worn twice in one outfit, one
\* black item, an item without colour, and eleven colours in one outfit
MinedEntries ==
    HistoryEntries \cup
    { Entry(<<Snap(1, "tops", "white"), Snap(11, "shoes", "white")>>, FALSE, 4, "casual"),
      Entry(<<Snap(9, "tops", "black")>>, TRUE, 0, "formal"),
      Entry(<<Snap(6, "outerwear", ""), Snap(10, "bottoms", "navy")>>, FALSE, 0, "casual"),
      Entry(<<Snap(21, "accessories", "red"), Snap(22, "accessories", "orange"),
              Snap(23, "accessories", "yellow"), Snap(24, "accessories", "green"),
              Snap(25, "accessories", "blue"), Snap(26, "accessories", "purple"),
              Snap(27, "accessories", "pink"), Snap(28, "accessories", "brown"),
              Snap(29, "accessories", "gray"), Snap(30, "accessories", "beige"),
              Snap(31, "accessories", "teal")>>, FALSE, 2, "party") }

MinedHistories ==
    UNION { [1..n -> MinedEntries] : n \in 0..MaxHistory }

InitMine ==
    /\ op = "_analyze_user_history"
    /\ args = None
    /\ clip_service_instance = None
    /\ clip_model = None
    /\ loads = 0
    /\ cache = <<>>
    /\ now = 0
    /\ users = <<>>
    /\ sent = <<>>
    /\ running = FALSE
    /\ pc = "start"
    /\ wardrobe = <<>>
    /\ occasion = ""
    /\ count = 0
    /\ weather_data = None
    /\ categorized = NoCategories
    /\ outfits = <<>>
    /\ seen_combinations = {}
    /\ attempts = 0
    /\ outfit_history \in MinedHistories
    /\ faults = {}
    /\ user_id = TRUE
    /\ user_preferences = None
    /\ result = <<>>

\* one call of _analyze_user_history
MH_Analyze ==
    /\ op = "_analyze_user_history" /\ pc = "start"
    /\ user_preferences' = AnalyzeUserHistory(outfit_history)
    /\ pc' = "done"
    /\ UNCHANGED <<cache, now, users, sent, running, args, clip_service_instance, clip_model, loads, op, wardrobe, occasion,
                   count, weather_data, categorized, outfits, seen_combinations, attempts,
                   outfit_history, faults, user_id, result>>

NextMine ==
    MH_Analyze

SpecMine ==
    InitMine /\ [][NextMine]_vars

----------------------------------------------------------------------------
(* OutfitService._calculate_weather_score and OutfitService.score_outfit   *)
(* called on one candidate                                                 *)

\* most items in one candidate
MaxCandidateItems == 4

\* lists of up to MaxCandidateItems distinct cold-weather items
Candidates ==
    UNION { { s \in [1..n -> ColdWeatherItems] : \A i, j \in 1..n : s[i] = s[j] => i = j }
            : n \in 0..MaxCandidateItems }

InitWeather ==
    /\ op \in {"_calculate_weather_score", "score_outfit"}
    /\ args \in [items : Candidates, weather_data : FreezingSnapshots \cup {None}]
    /\ clip_service_instance = None
    /\ clip_model = None
    /\ loads = 0
    /\ cache = <<>>
    /\ now = 0
    /\ users = <<>>
    /\ sent = <<>>
    /\ running = FALSE
    /\ pc = "start"
    /\ wardrobe = <<>>
    /\ occasion = "casual"
    /\ count = 0
    /\ weather_data = None
    /\ categorized = NoCategories
    /\ outfits = <<>>
    /\ seen_combinations = {}
    /\ attempts = 0
    /\ outfit_history = <<>>
    /\ faults = {}
    /\ user_id = FALSE
    /\ user_preferences = None
    /\ result = <<>>

\* one call of _calculate_weather_score(items, weather_data)
WS_Calculate ==
    /\ op = "_calculate_weather_score" /\ pc = "start"
    /\ result' = CalculateWeatherScore(args.items, args.weather_data)
    /\ pc' = "done"
    /\ UNCHANGED <<cache, now, users, sent, running, args, clip_service_instance, clip_model, loads, op, wardrobe, occasion,
                   count, weather_data, categorized, outfits, seen_combinations, attempts,
                   outfit_history, faults, user_id, user_preferences>>

\* one call of score_outfit(outfit, user_id, occasion, weather_data)
WS_ScoreOutfit ==
    /\ op = "score_outfit" /\ pc = "start"
    /\ \E style_score \in StyleDraws :
          result' = ScoreOutfit([items |-> args.items, occasion |-> occasion], occasion,
                                args.weather_data, style_score)
    /\ pc' = "done"
    /\ UNCHANGED <<cache, now, users, sent, running, args, clip_service_instance, clip_model, loads, op, wardrobe, occasion,
                   count, weather_data, categorized, outfits, seen_combinations, attempts,
                   outfit_history, faults, user_id, user_preferences>>

NextWeather ==
    \/ WS_Calculate
    \/ WS_ScoreOutfit

SpecWeather ==
    InitWeather /\ [][NextWeather]_vars

----------------------------------------------------------------------------
(* WeatherService.get_temperature_category called on one temperature *)

\* temperatures run from -MaxTemperature to MaxTemperature degrees
MaxTemperature == 55

Temperatures ==
    (0 - MaxTemperature)..MaxTemperature

InitTemperature ==
    /\ op = "get_temperature_category"
    /\ args \in [temp_c : Temperatures]
    /\ clip_service_instance = None
    /\ clip_model = None
    /\ loads = 0
    /\ cache = <<>>
    /\ now = 0
    /\ users = <<>>
    /\ sent = <<>>
    /\ running = FALSE
    /\ pc = "start"
    /\ wardrobe = <<>>
    /\ occasion = ""
    /\ count = 0
    /\ weather_data = None
    /\ categorized = NoCategories
    /\ outfits = <<>>
    /\ seen_combinations = {}
    /\ attempts = 0
    /\ outfit_history = <<>>
    /\ faults = {}
    /\ user_id = FALSE
    /\ user_preferences = None
    /\ result = <<>>

\* one call of get_temperature_category(temp_c)
TC_Call ==
    /\ op = "get_temperature_category" /\ pc = "start"
    /\ result' = GetTemperatureCategory(args.temp_c)
    /\ pc' = "done"
    /\ UNCHANGED <<cache, now, users, sent, running, args, clip_service_instance,
                   clip_model, loads, op, wardrobe, occasion, count, weather_data,
                   categorized, outfits, seen_combinations, attempts, outfit_history,
                   faults, user_id, user_preferences>>

NextTemperature ==
    TC_Call

SpecTemperature ==
    InitTemperature /\ [][NextTemperature]_vars

----------------------------------------------------------------------------
(* OutfitService._categorize_items and                                     *)
(* PersonalizedAIService._categorize_items called on one list of items     *)

DressShirt  == Item(30, "", "dress shirt", "white", "formal", "cotton", "")
Culottes    == Item(31, "bottoms", "culottes", "black", "casual", "linen", "")
Windbreaker == Item(32, "Outerwear", "windbreaker", "green", "sport", "nylon", "")

\* items as either service may find them: with and without category, names
\* that match one keyword list, several, or none
BucketedItems ==
    {WhiteShirt, Poncho, BlueJeans, RedGown, BlackBoots, Belt,
     DressShirt, Culottes, Windbreaker}

\* most items in one list
MaxBucketed == 3

\* lists of up to MaxBucketed items, the same item possibly more than once
BucketedLists ==
    UNION { [1..n -> BucketedItems] : n \in 0..MaxBucketed }

InitCategorize ==
    /\ op \in {"OutfitService._categorize_items", "PersonalizedAIService._categorize_items"}
    /\ args \in [items : BucketedLists]
    /\ clip_service_instance = None
    /\ clip_model = None
    /\ loads = 0
    /\ cache = <<>>
    /\ now = 0
    /\ users = <<>>
    /\ sent = <<>>
    /\ running = FALSE
    /\ pc = "start"
    /\ wardrobe = <<>>
    /\ occasion = ""
    /\ count = 0
    /\ weather_data = None
    /\ categorized = NoCategories
    /\ outfits = <<>>
    /\ seen_combinations = {}
    /\ attempts = 0
    /\ outfit_history = <<>>
    /\ faults = {}
    /\ user_id = FALSE
    /\ user_preferences = None
    /\ result = <<>>

\* one call of OutfitService._categorize_items(items)
CI_Outfit ==
    /\ op = "OutfitService._categorize_items" /\ pc = "start"
    /\ categorized' = CategorizeItems(args.items)
    /\ pc' = "done"
    /\ UNCHANGED <<cache, now, users, sent, running, args, clip_service_instance,
                   clip_model, loads, op, wardrobe, occasion, count, weather_data,
                   outfits, seen_combinations, attempts, outfit_history, faults,
                   user_id, user_preferences, result>>

\* one call of PersonalizedAIService._categorize_items(items)
CI_Personalized ==
    /\ op = "PersonalizedAIService._categorize_items" /\ pc = "start"
    /\ categorized' = PCategorizeItems(args.items)
    /\ pc' = "done"
    /\ UNCHANGED <<cache, now, users, sent, running, args, clip_service_instance,
                   clip_model, loads, op, wardrobe, occasion, count, weather_data,
                   outfits, seen_combinations, attempts, outfit_history, faults,
                   user_id, user_preferences, result>>

NextCategorize ==
    \/ CI_Outfit
    \/ CI_Personalized

SpecCategorize ==
    InitCategorize /\ [][NextCategorize]_vars

----------------------------------------------------------------------------
(* WeatherService.get_weather_by_coordinates and its cache.  The clock     *)
(* counts seconds; a weather record is known by its coordinates and the    *)
(* time of the observation.                                                *)

\* self.cache_duration = 15 * 60
cache_duration == 900

\* days after the first one
MaxDays == 1

\* five-minute marks after midnight
MaxMarks == 3

\* the instants at which something happens: the first minutes of each day
Instants ==
    { d * 86400 + m * 300 : d \in 0..MaxDays, m \in 0..MaxMarks }

\* (lat, lon) pairs asked for
Coordinates ==
    { <<51, 0>>, <<40, -74>> }

\* (a - b).seconds of datetime.timedelta: the seconds field of the
\* normalised difference, which leaves the days out
TimedeltaSeconds(a, b) ==
    (a - b) % 86400

\* the record built from the API response at lines 268-291
WeatherInfo(lat, lon, time) ==
    [latitude |-> lat, longitude |-> lon, timestamp |-> time]

InitCache ==
    /\ op = "get_weather_by_coordinates"
    /\ args = None
    /\ clip_service_instance = None
    /\ clip_model = None
    /\ loads = 0
    /\ cache = <<>>
    /\ now = 0
    /\ users = <<>>
    /\ sent = <<>>
    /\ running = FALSE
    /\ pc = "idle"
    /\ wardrobe = <<>>
    /\ occasion = ""
    /\ count = 0
    /\ weather_data = None
    /\ categorized = NoCategories
    /\ outfits = <<>>
    /\ seen_combinations = {}
    /\ attempts = 0
    /\ outfit_history = <<>>
    /\ faults = {}
    /\ user_id = FALSE
    /\ user_preferences = None
    /\ result = None

\* time passes
WX_Elapse ==
    /\ op = "get_weather_by_coordinates"
    /\ \E t \in Instants : t > now /\ now' = t
    /\ pc' = "idle"
    /\ UNCHANGED <<cache, users, sent, running, args, clip_service_instance, clip_model,
                   loads, op, wardrobe, occasion, count, weather_data, categorized,
                   outfits, seen_combinations, attempts, outfit_history, faults,
                   user_id, user_preferences, result>>

\* one call of get_weather_by_coordinates(lat, lon); responds says whether
\* requests.get answers or raises
WX_GetWeatherByCoordinates ==
    /\ op = "get_weather_by_coordinates"
    /\ \E cache_key \in Coordinates, responds \in BOOLEAN :
          /\ args' = [lat |-> cache_key[1], lon |-> cache_key[2]]
          /\ IF /\ cache_key \in DOMAIN cache
                /\ TimedeltaSeconds(now, cache[cache_key][2]) < cache_duration
             THEN /\ result' = cache[cache_key][1]
                  /\ cache' = cache
             ELSE IF responds
             THEN LET weather_info == WeatherInfo(cache_key[1], cache_key[2], now)
                  IN  /\ cache' = [k \in DOMAIN cache \cup {cache_key} |->
                                      IF k = cache_key THEN <<weather_info, now>>
                                      ELSE cache[k]]
                      /\ result' = weather_info
             ELSE /\ result' = None
                  /\ cache' = cache
    /\ pc' = "done"
    /\ UNCHANGED <<now, users, sent, running, clip_service_instance, clip_model, loads,
                   op, wardrobe, occasion, count, weather_data, categorized, outfits,
                   seen_combinations, attempts, outfit_history, faults, user_id,
                   user_preferences>>

NextCache ==
    \/ WX_Elapse
    \/ WX_GetWeatherByCoordinates

SpecCache ==
    InitCache /\ [][NextCache]_vars

----------------------------------------------------------------------------
(* NotificationScheduler: start, stop and the iterations of                *)
(* daily_reminder_loop.  The clock counts seconds of UTC time.             *)

\* now.hour, now.minute, now.date()
HourOf(t)   == (t \div 3600) % 24
MinuteOf(t) == (t \div 60) % 60
DateOf(t)   == t \div 86400

\* hour, minute = map(int, reminder_time.split(":")), or None where that
\* raises ValueError
ParseReminderTime(reminder_time) ==
    CASE reminder_time = "09:00" -> Some(<<9, 0>>)
      [] reminder_time = "09:03" -> Some(<<9, 3>>)
      [] reminder_time = "00:02" -> Some(<<0, 2>>)
      [] OTHER                   -> None

\* daily_outfit_time settings found in db.users
ReminderTimes ==
    {"09:00", "09:03", "00:02", "9am"}

\* a db.users document with both notification flags set
User(id, reminder_time) ==
    [id |-> id, daily_outfit_time |-> reminder_time, last_daily_reminder |-> None]

\* the times at which start() may be called: 08:58 and 23:57 of the first day
StartInstants ==
    {8 * 3600 + 58 * 60, 23 * 3600 + 57 * 60}

\* iterations of the loop followed after start()
MaxIterations == 10

\* lines 58-66: it is the user's time to be reminded and no reminder of
\* today is recorded in the document read
DueNow(user, t) ==
    LET parsed == ParseReminderTime(user.daily_outfit_time)
    IN  /\ parsed # None
        /\ parsed.value[1] = HourOf(t)
        /\ AbsInt(parsed.value[2] - MinuteOf(t)) < 5
        /\ ~(/\ user.last_daily_reminder # None
             /\ DateOf(user.last_daily_reminder.value) = DateOf(t))

RECURSIVE RemindFrom(_, _, _, _, _, _)
\* the body of `for user in users` from position k on: docs and pushed are
\* db.users and the pushes so far; delivered[k] says whether
\* send_daily_outfit_reminder, which swallows its own errors, got the push
\* out; update_one raises at the first due user at or after position
\* raise_at, and the exception ends the loop over the users
RemindFrom(k, docs, pushed, t, delivered, raise_at) ==
    IF k > Len(docs) THEN [users |-> docs, sent |-> pushed]
    ELSE IF ~DueNow(docs[k], t) THEN RemindFrom(k + 1, docs, pushed, t, delivered, raise_at)
    ELSE LET pushed_k == IF delivered[k] THEN pushed \cup {<<docs[k].id, t>>} ELSE pushed
         IN  IF raise_at # 0 /\ k >= raise_at THEN [users |-> docs, sent |-> pushed_k]
             ELSE RemindFrom(k + 1,
                             [docs EXCEPT ![k].last_daily_reminder = Some(t)],
                             pushed_k, t, delivered, raise_at)

InitReminder ==
    /\ op = "daily_reminder_loop"
    /\ args = None
    /\ clip_service_instance = None
    /\ clip_model = None
    /\ loads = 0
    /\ cache = <<>>
    /\ now \in StartInstants
    /\ \E first, second \in ReminderTimes : users = <<User(1, first), User(2, second)>>
    /\ sent = {}
    /\ running = FALSE
    /\ pc = "constructed"
    /\ wardrobe = <<>>
    /\ occasion = ""
    /\ count = 0
    /\ weather_data = None
    /\ categorized = NoCategories
    /\ outfits = <<>>
    /\ seen_combinations = {}
    /\ attempts = 0
    /\ outfit_history = <<>>
    /\ faults = {}
    /\ user_id = FALSE
    /\ user_preferences = None
    /\ result = None

\* start(): running set, the loop task created
NS_Start ==
    /\ op = "daily_reminder_loop" /\ pc = "constructed"
    /\ running' = TRUE
    /\ pc' = "looping"
    /\ UNCHANGED <<cache, now, users, sent, args, clip_service_instance, clip_model, loads,
                   op, wardrobe, occasion, count, weather_data, categorized, outfits,
                   seen_combinations, attempts, outfit_history, faults, user_id,
                   user_preferences, result>>

\* stop()
NS_Stop ==
    /\ op = "daily_reminder_loop" /\ pc = "looping"
    /\ running' = FALSE
    /\ pc' = "stopped"
    /\ UNCHANGED <<cache, now, users, sent, args, clip_service_instance, clip_model, loads,
                   op, wardrobe, occasion, count, weather_data, categorized, outfits,
                   seen_combinations, attempts, outfit_history, faults, user_id,
                   user_preferences, result>>

\* one iteration of `while self.running`: the users are read and reminded
\* in turn, then the task sleeps 60 seconds, also after an exception
NS_DailyReminderIteration ==
    /\ op = "daily_reminder_loop" /\ pc = "looping" /\ running
    /\ \E s \in StartInstants : s <= now /\ now < s + MaxIterations * 60
    /\ \E delivered \in [DOMAIN users -> BOOLEAN], raise_at \in 0..Len(users) :
          LET after == RemindFrom(1, users, sent, now, delivered, raise_at)
          IN  /\ users' = after.users
              /\ sent' = after.sent
    /\ now' = now + 60
    /\ UNCHANGED <<cache, running, args, clip_service_instance, clip_model, loads, op, pc,
                   wardrobe, occasion, count, weather_data, categorized, outfits,
                   seen_combinations, attempts, outfit_history, faults, user_id,
                   user_preferences, result>>

NextReminder ==
    \/ NS_Start
    \/ NS_Stop
    \/ NS_DailyReminderIteration

SpecReminder ==
    InitReminder /\ [][NextReminder]_vars

----------------------------------------------------------------------------
(* Properties *)

Suggesting ==
    op = "generate_suggestions"

Recommending ==
    op = "get_personalized_recommendations"

Analyzing ==
    op = "analyze_outfit_coherence"

DistinctIds(items) ==
    \A i, j \in DOMAIN items : i # j => ItemId(items[i]) # ItemId(items[j])

\* C1: in one run of generate_suggestions no two accepted outfits have the
\* same signature (sorted tuple of item identifiers).
C1_UniqueSignatures ==
    Suggesting =>
        \A i, j \in DOMAIN outfits :
            i # j => Signature(outfits[i]) # Signature(outfits[j])

\* two outfits accepted while a skeleton with an accepted signature but a
\* different item order can still be drawn
C1_Witness ==
    /\ Suggesting /\ pc = "loop"
    /\ Len(outfits) >= 2
    /\ attempts > Len(outfits)
    /\ \E o \in ValidOutfits :
          /\ Signature(o) \in seen_combinations
          /\ \A i \in DOMAIN outfits : outfits[i].items # o.items

\* C2: every outfit generate_suggestions accepts has at least 2 items and
\* contains a dress, or both a top and a bottom.
C2_AcceptedOutfitsValid ==
    Suggesting =>
        \A k \in DOMAIN outfits :
            LET items  == outfits[k].items
                cat(i) == Lower(items[i].category)
            IN  /\ Len(items) >= 2
                /\ \/ \E i \in DOMAIN items : cat(i) = "dresses"
                   \/ /\ \E i \in DOMAIN items :
                             cat(i) \in {"tops", "shirt", "blouse", "t-shirt", "sweater"}
                      /\ \E i \in DOMAIN items :
                             cat(i) \in {"bottoms", "pants", "jeans", "skirt", "shorts"}

\* an outfit was accepted from a wardrobe that also yields a skeleton of two
\* or more items failing _is_outfit_valid
C2_Witness ==
    /\ Suggesting /\ pc = "loop"
    /\ Len(outfits) >= 1
    /\ \E o \in CreateOutfitFromCategories(categorized, occasion) :
          o # None /\ ~IsOutfitValid(o)

\* C3: with pairwise distinct identifiers in the wardrobe, no outfit built by
\* _create_outfit_from_categories or _create_outfit_combinations contains two
\* items with the same identifier.
C3_NoRepeatedItem ==
    /\ Suggesting /\ pc = "loop" /\ DistinctIds(wardrobe) =>
          /\ \A o \in CreateOutfitFromCategories(categorized, occasion) :
                o # None => DistinctIds(o.items)
          /\ \A i \in DOMAIN outfits : DistinctIds(outfits[i].items)
    /\ Recommending /\ DistinctIds(wardrobe) =>
          \A i \in DOMAIN outfits : DistinctIds(outfits[i].items)

\* an accepted top + bottom outfit carrying two sampled accessories
C3_Witness ==
    /\ Suggesting /\ DistinctIds(wardrobe)
    /\ \E i \in DOMAIN outfits :
          /\ Len(outfits[i].items) = 4
          /\ BucketOf(outfits[i].items[3]) = "accessories"
          /\ BucketOf(outfits[i].items[4]) = "accessories"

\* C4: generate_suggestions terminates: every loop iteration (accepted,
\* invalid or duplicate) consumes exactly one attempt, the loop runs at most
\* count * 20 attempts, and the call returns at most count outfits (fewer,
\* possibly none, when the wardrobe cannot yield count unique valid outfits).
C4_BoundedLoop ==
    /\ [](Suggesting => /\ attempts <= count * 20
                        /\ Len(outfits) <= count
                        /\ (pc = "done" => Len(result) <= count))
    /\ [][Suggesting /\ pc = "loop" /\ pc' = "loop" => attempts' = attempts + 1]_vars

\* the call returned fewer outfits than asked after using up every attempt
C4_Witness ==
    /\ Suggesting /\ pc = "done"
    /\ count > 0
    /\ attempts = count * 20
    /\ Len(result) < count

\* C5: a personalized recommendation request on a wardrobe with zero items
\* ends with success = false and zero outfits, from the service and from the
\* route.
C5_EmptyWardrobeFailsSoft ==
    Recommending /\ wardrobe = <<>> =>
        /\ outfits = <<>>
        /\ pc = "returned" => /\ result.success = FALSE
                              /\ "recommendations" \notin DOMAIN result
        /\ pc = "done" => /\ result.success = FALSE
                          /\ result.recommendations.outfits = <<>>

\* the route answered the "no clothing items" result of a healthy request
C5_Witness ==
    /\ Recommending /\ pc = "done"
    /\ wardrobe = <<>> /\ faults = {}
    /\ result.error = "No clothing items in wardrobe"
    /\ result.recommendations.total_combinations = 0

InUnit(r) ==
    RLe(<<0, 1>>, r) /\ RLe(r, <<1, 1>>)

ScoresInRange(o) ==
    /\ \A k \in DOMAIN o.scores : 0 <= o.scores[k] /\ o.scores[k] <= 100
    /\ "weather_score" \in DOMAIN o => InUnit(o.weather_score)
    /\ "combined_score" \in DOMAIN o => InUnit(o.combined_score)

\* C6: the style, color, occasion, weather and combined scores of every
\* scored outfit lie in [0,1], and every personalized score lies in [0,100].
C6_ScoresInRange ==
    /\ Suggesting =>
          /\ \A i \in DOMAIN outfits : ScoresInRange(outfits[i])
          /\ \A i \in DOMAIN result : ScoresInRange(result[i])
    /\ Recommending =>
          \A i \in DOMAIN outfits :
              "personalized_score" \in DOMAIN outfits[i] =>
                  /\ RLe(<<0, 1>>, outfits[i].personalized_score)
                  /\ RLe(outfits[i].personalized_score, <<100, 1>>)

\* a candidate whose bonuses add up to more than 100 before the clamp
C6_Witness ==
    /\ Recommending /\ pc = "returned"
    /\ \E i \in DOMAIN outfits :
          /\ "personalized_score" \in DOMAIN outfits[i]
          /\ outfits[i].personalized_score = <<100, 1>>
          /\ DOMAIN outfits[i].items = 1..3

REq(a, b) ==
    a[1] * b[2] = b[1] * a[2]

\* the outfit's own score under a key: the top-level entry when the outfit
\* has one, else the entry of its "scores"
OwnScore(o, key) ==
    IF key \in DOMAIN o THEN o[key] ELSE <<o.scores[key], 100>>

\* C7: for every outfit generate_suggestions returns from the wardrobe, with
\* or without weather data, the outfit's combined score equals
\* 0.3 style + 0.25 color + 0.25 occasion + 0.2 weather of its own scores
\* (up to the 0.01 that rounding the scores to two decimals can move it).
C7_CombinedIsWeightedSum ==
    Suggesting /\ pc = "done" /\ wardrobe # <<>> =>
        \A i \in DOMAIN result :
            LET o == result[i]
            IN  RLe(RAbs(RSub(OwnScore(o, "combined_score"),
                              WeightedSum(OwnScore(o, "style_score"),
                                          OwnScore(o, "color_score"),
                                          OwnScore(o, "occasion_score"),
                                          OwnScore(o, "weather_score")))),
                    <<1, 100>>)

Returned ==
    Recommending /\ pc \in {"returned", "done"} /\ result.success

FinalScore(o) ==
    Get(o, "combined_score", o.style_score)

NonIncreasing(list) ==
    \A i, j \in DOMAIN list : i < j => RLe(FinalScore(list[j]), FinalScore(list[i]))

BaseScore(o) ==
    <<CalculateStyleScore(o.items, weather_data, OccasionOrCasual(occasion)), 1>>

\* C8: with personalization active every candidate's final score is
\* 0.4 base + 0.6 personalized, the candidates are in non-increasing order of
\* it, the at most 5 outfits returned are the highest-scoring candidates, and
\* total_combinations counts all candidates.
C8_BlendedRanking ==
    Returned /\ result.recommendations.personalization_active =>
        LET recs == result.recommendations
        IN  /\ \A i \in DOMAIN outfits :
                  /\ RLe(<<0, 1>>, BaseScore(outfits[i]))
                  /\ RLe(BaseScore(outfits[i]), <<100, 1>>)
                  /\ RLe(<<0, 1>>, outfits[i].personalized_score)
                  /\ RLe(outfits[i].personalized_score, <<100, 1>>)
                  /\ REq(outfits[i].combined_score,
                         RAdd(RMul(BaseScore(outfits[i]), <<4, 10>>),
                              RMul(outfits[i].personalized_score, <<6, 10>>)))
                  /\ REq(outfits[i].style_score, outfits[i].combined_score)
            /\ NonIncreasing(outfits)
            /\ Len(recs.outfits) = MinInt(5, Len(outfits))
            /\ \A k \in DOMAIN recs.outfits :
                  /\ recs.outfits[k] = outfits[k]
                  /\ \A j \in DOMAIN outfits :
                        j > Len(recs.outfits) =>
                            RLe(FinalScore(outfits[j]), FinalScore(recs.outfits[k]))
            /\ recs.total_combinations = Len(outfits)

\* more than five candidates with different blended scores, five returned
C8_Witness ==
    /\ Returned /\ pc = "done"
    /\ result.recommendations.personalization_active
    /\ result.recommendations.total_combinations > 5
    /\ Len(result.recommendations.outfits) = 5
    /\ RLt(FinalScore(outfits[Len(outfits)]), FinalScore(outfits[1]))

\* C9: personalization_active is true iff the mined profile has at least one
\* favourite colour; when it is false no outfit carries a personalized
\* score, every outfit has history_based = false, and the outfits are in
\* non-increasing order of base score.
C9_InactiveFallsBack ==
    Returned =>
        LET recs == result.recommendations
        IN  /\ recs.personalization_active <=>
                  Len(user_preferences.favorite_colors) >= 1
            /\ ~recs.personalization_active =>
                  /\ \A i \in DOMAIN outfits :
                        /\ "personalized_score" \notin DOMAIN outfits[i]
                        /\ outfits[i].history_based = FALSE
                        /\ REq(outfits[i].style_score, BaseScore(outfits[i]))
                  /\ NonIncreasing(outfits)
                  /\ recs.outfits = Take(outfits, 5)

\* a profile mined from recorded history that has no favourite colour, and
\* candidates with different base scores
C9_Witness ==
    /\ Returned /\ pc = "done"
    /\ outfit_history # <<>>
    /\ user_preferences.favorite_colors = <<>>
    /\ ~result.recommendations.personalization_active
    /\ Len(outfits) >= 2
    /\ RLt(outfits[Len(outfits)].style_score, outfits[1].style_score)

\* C10: analyze_outfit_coherence with a user_id whose history is empty or
\* cannot be read falls back to the base score: score = base_score,
\* personalized_score is null and personalization_used is false.
C10_EmptyHistoryFallsBack ==
    Analyzing /\ pc = "done" /\ user_id
              /\ (outfit_history = <<>> \/ "history_raises" \in faults) =>
        /\ result.score = result.base_score
        /\ result.personalized_score = None
        /\ result.personalization_used = FALSE

Reranked ==
    op = "_generate_recommendations" /\ pc = "done"

HasNavy(o) ==
    \E i \in DOMAIN o.items : Strip(Lower(o.items[i].color)) = "navy"

\* x and y agree item for item except at one position, where x has a navy
\* item and y an item that is the same but for its colour and identifier
DiffersOnlyByNavy(x, y) ==
    /\ Len(x.items) = Len(y.items)
    /\ ~HasNavy(y)
    /\ \E k \in DOMAIN x.items :
          /\ Strip(Lower(x.items[k].color)) = "navy"
          /\ [x.items[k] EXCEPT !.color = "", !.id = 0]
                = [y.items[k] EXCEPT !.color = "", !.id = 0]
          /\ \A j \in DOMAIN x.items : j # k => x.items[j] = y.items[j]

OccasionBaseScore(o) ==
    <<CalculateStyleScore(o.items, weather_data, occasion), 1>>

\* C11: when every history entry is a favourite containing navy, of two
\* candidates with equal base score that differ only in that one includes a
\* navy item, the navy one has the strictly greater personalized score and
\* is ranked before the other.
C11_NavyRankedFirst ==
    Reranked =>
        \A i, j \in DOMAIN outfits :
            /\ DiffersOnlyByNavy(outfits[i], outfits[j])
            /\ REq(OccasionBaseScore(outfits[i]), OccasionBaseScore(outfits[j]))
            => /\ RLt(outfits[j].personalized_score, outfits[i].personalized_score)
               /\ i < j

FatalFaults ==
    {"db", "user_missing", "user_raises", "wardrobe_raises"}

\* C16: with a non-empty wardrobe and user and wardrobe reads that work, a
\* history read that raises and a weather lookup that raises or has no data
\* still end in success = true with the outfit list; after a failed history
\* read personalization_active is false and no outfit is history based,
\* without weather data weather_considered is false.
C16_OptionalReadsFailSoft ==
    /\ Recommending /\ wardrobe # <<>> /\ faults \cap FatalFaults = {}
          => pc \in {"start", "analyze", "generate"} \/ result.success
    /\ Recommending /\ pc \in {"returned", "done"} /\ wardrobe # <<>>
       /\ faults \cap FatalFaults = {} =>
          LET recs == result.recommendations
          IN  /\ result.success
              /\ recs.outfits = Take(outfits, TopOutfits)
              /\ recs.total_combinations = Len(outfits)
              /\ "history_raises" \in faults =>
                    /\ ~recs.personalization_active
                    /\ result.personalization_data.history_entries = 0
                    /\ \A i \in DOMAIN outfits : ~outfits[i].history_based
              /\ "weather_raises" \in faults \/ weather_data = None =>
                    /\ ~recs.weather_considered
                    /\ result.weather = None

\* both optional reads raised and the caller still got outfits
C16_Witness ==
    /\ Recommending /\ pc = "done"
    /\ faults = {"history_raises", "weather_raises"}
    /\ result.success
    /\ Len(result.recommendations.outfits) > 0
    /\ ~result.recommendations.personalization_active
    /\ ~result.recommendations.weather_considered

Searched ==
    op \in {"CLIPService.find_similar_items", "FashionAIService.find_similar_items"}
    /\ pc = "done"

\* the query has the items' two components and is not the zero vector
ProperQuery ==
    Len(args.query_embedding) = 2 /\ Norm(args.query_embedding)[1] # 0

\* cosine similarity of the query and item i's embedding
Cosine(i) ==
    LET q == args.query_embedding
        e == args.wardrobe_items[i].embedding.value
    IN  Rat(Dot(q, e)[1] * Norm(q)[2] * Norm(e)[2], Dot(q, e)[2] * Norm(q)[1] * Norm(e)[1])

Embedded ==
    {i \in DOMAIN args.wardrobe_items : args.wardrobe_items[i].embedding # None}

Eligible ==
    {i \in Embedded : RLe(args.min_similarity, Cosine(i))}

ResultIds ==
    {result[k].id : k \in DOMAIN result}

\* every returned item is a candidate with an embedding, returned once, with
\* its similarity rounded to 3 decimals; highest similarity_score first
SortedCandidates ==
    /\ \A k \in DOMAIN result :
          /\ result[k].id \in Embedded
          /\ result[k].embedding = args.wardrobe_items[result[k].id].embedding
          /\ result[k].similarity_score = RoundTo(Cosine(result[k].id), 1000)
    /\ \A k, l \in DOMAIN result :
          k < l => /\ result[k].id # result[l].id
                   /\ result[l].similarity_score <= result[k].similarity_score

\* C12: for top_k >= 0 and a proper query, find_similar_items returns the
\* items that have an embedding and a similarity >= min_similarity, cut to
\* the top_k with the highest similarity_score, in non-increasing order of
\* similarity_score (the similarity rounded to 3 decimals); no item without
\* embedding is returned and the length never exceeds top_k.
C12_TopKAboveThreshold ==
    Searched /\ args.top_k >= 0 /\ ProperQuery =>
        /\ SortedCandidates
        /\ ResultIds \subseteq Eligible
        /\ Len(result) = MinInt(args.top_k, Cardinality(Eligible))
        /\ Len(result) <= args.top_k
        /\ \A i \in Eligible \ ResultIds : \A k \in DOMAIN result :
              RoundTo(Cosine(i), 1000) <= result[k].similarity_score

\* three candidates, one without embedding and one below the threshold that
\* rounds up to it, cut to the better of the two others
C12_Witness ==
    /\ Searched /\ ProperQuery
    /\ args.top_k = 1
    /\ Len(args.wardrobe_items) = MaxItems
    /\ Cardinality(Embedded) = 2
    /\ Cardinality(Eligible) = 1
    /\ \E i \in Embedded \ Eligible : RoundTo(Cosine(i), 1000) = 385
    /\ args.min_similarity = <<385, 1000>>
    /\ Len(result) = 1

\* C13 as stated: whatever top_k >= 0 is, min_similarity = -1 returns every
\* candidate that has an embedding, sorted descending, and
\* min_similarity = 1.01 returns nothing.
C13_RoundTrip ==
    Searched /\ ProperQuery /\ args.top_k >= 0 =>
        /\ args.min_similarity = <<-1, 1>> => SortedCandidates /\ ResultIds = Embedded
        /\ args.min_similarity = <<101, 100>> => result = <<>>

\* C13 amended: with min_similarity = -1 and top_k >= 0 the result is the
\* top_k candidates with the highest similarity among those that have an
\* embedding, sorted descending, and every one of them when top_k is at
\* least their number; with min_similarity = 1.01 the result is empty.
C13_RoundTripUpToTopK ==
    Searched /\ ProperQuery =>
        /\ args.min_similarity = <<-1, 1>> /\ args.top_k >= 0 =>
              /\ SortedCandidates
              /\ Len(result) = MinInt(args.top_k, Cardinality(Embedded))
              /\ args.top_k >= Cardinality(Embedded) => ResultIds = Embedded
              /\ \A i \in Embedded \ ResultIds : \A k \in DOMAIN result :
                    RoundTo(Cosine(i), 1000) <= result[k].similarity_score
        /\ args.min_similarity = <<101, 100>> => result = <<>>

\* all three candidates returned, the one opposite to the query last
C13_Witness ==
    /\ Searched /\ ProperQuery
    /\ args.min_similarity = <<-1, 1>>
    /\ args.top_k = MaxItems
    /\ Cardinality(Embedded) = MaxItems
    /\ Len(result) = MaxItems
    /\ result[MaxItems].similarity_score = -1000
    /\ result[1].similarity_score > result[2].similarity_score

\* C14: a call with a negative top_k, or with a query vector of norm 0 or
\* of no components, does not return normally: it ends in a validation
\* failure.
C14_InvalidArgumentsRejected ==
    op \in {"CLIPService.find_similar_items", "FashionAIService.find_similar_items"}
    /\ (args.top_k < 0 \/ ~ProperQuery)
        => pc # "done"

\* C15: whatever the order in which requests first use the embedding model
\* and later ones follow, the model is loaded at most once in the process.
C15_ModelLoadedOnce ==
    op = "load_model" => loads <= 1

ColorScored ==
    op = "_calculate_color_score" /\ pc = "done"

ItemColors ==
    [i \in DOMAIN args.items |-> args.items[i].color]

Monochrome ==
    Cardinality({ItemColors[i] : i \in DOMAIN ItemColors}) = 1

TooBright ==
    Cardinality({i \in DOMAIN ItemColors :
                    ItemColors[i] \in {"red", "yellow", "orange", "pink", "purple"}}) > 2

NeutralAt(i) ==
    ItemColors[i] \in {"black", "white", "gray", "navy", "beige", "brown"}

\* the clamp to [0, 1] of points/100
ColorPoints(points) ==
    IF points < 0 THEN <<0, 1>> ELSE IF points > 100 THEN <<1, 1>> ELSE Rat(points, 100)

\* C20 as stated, for lists of two or more items: the score is the clamp of
\* 0.5, plus 0.2 when all items share one colour, plus 0.1 when the colours
\* of the first two items are both neutral, minus 0.1 when more than 2 items
\* have a bright colour.
C20_ColorScoreBothNeutral ==
    ColorScored /\ Len(args.items) >= 2 =>
        REq(result, ColorPoints(50 + (IF Monochrome THEN 20 ELSE 0)
                                   + (IF NeutralAt(1) /\ NeutralAt(2) THEN 10 ELSE 0)
                                   - (IF TooBright THEN 10 ELSE 0)))

\* C20 amended: the score is 0.5 for an empty list and otherwise the clamp of
\* 0.5, plus 0.2 when all items share one colour, plus 0.1 when at least
\* one of the first two items has a neutral colour, minus 0.1 when more than
\* 2 items have a bright colour.
C20_ColorScoreAnyNeutral ==
    ColorScored =>
        IF args.items = <<>> THEN REq(result, <<1, 2>>)
        ELSE REq(result, ColorPoints(50 + (IF Monochrome THEN 20 ELSE 0)
                    + (IF \E i \in DOMAIN ItemColors : i <= 2 /\ NeutralAt(i) THEN 10 ELSE 0)
                    - (IF TooBright THEN 10 ELSE 0)))

\* a neutral colour followed by a bright one earns the neutral bonus
C20_Witness ==
    /\ ColorScored
    /\ Len(args.items) = 2
    /\ NeutralAt(1) /\ ~NeutralAt(2)
    /\ REq(result, <<6, 10>>)

Mined ==
    op = "_analyze_user_history" /\ pc = "done"

\* the colours of one history entry, as the profile spells them
EntryColors(entry) ==
    {Strip(Lower(entry.outfit_items[k].color)) : k \in DOMAIN entry.outfit_items}
        \ {"", "none", "unknown"}

HistoryColors ==
    UNION {EntryColors(outfit_history[n]) : n \in DOMAIN outfit_history}

\* the sum of the outfit scores of the entries containing the colour, each
\* entry once
EntryScoreSum(color) ==
    SumInts([n \in DOMAIN outfit_history |->
                IF color \in EntryColors(outfit_history[n])
                THEN OutfitScore(outfit_history[n]) ELSE 0])

\* C17: favorite_colors holds the at most 10 colours with the highest
\* accumulated score, highest first, where the accumulated score of a colour
\* is the sum of the outfit scores of the entries containing it, each entry
\* counted once.
C17_FavoriteColorsByEntryScore ==
    Mined =>
        LET fc == user_preferences.favorite_colors
        IN  /\ Len(fc) = MinInt(10, Cardinality(HistoryColors))
            /\ Range(fc) \subseteq HistoryColors
            /\ \A i, j \in DOMAIN fc :
                  i < j => fc[i] # fc[j] /\ EntryScoreSum(fc[j]) <= EntryScoreSum(fc[i])
            /\ \A c \in HistoryColors \ Range(fc) : \A i \in DOMAIN fc :
                  EntryScoreSum(c) <= EntryScoreSum(fc[i])

EntriesWithOccasion(o) ==
    {n \in DOMAIN outfit_history : outfit_history[n].occasion = o}

\* C18: for a non-empty history occasion_preferences maps every occasion to
\* the number of entries with that occasion over the number of all entries,
\* and its values sum to 1.
C18_OccasionDistribution ==
    Mined /\ outfit_history # <<>> =>
        LET prefs == user_preferences.occasion_preferences
        IN  /\ Keys(prefs) = {outfit_history[n].occasion : n \in DOMAIN outfit_history}
            /\ \A o \in Keys(prefs) :
                  REq(Lookup(prefs, o),
                      Rat(Cardinality(EntriesWithOccasion(o)), Len(outfit_history)))
            /\ REq(SumSeq([i \in DOMAIN prefs |-> prefs[i][2]]), <<1, 1>>)

\* the history without its entries that have no items
WithItems ==
    SelectSeq(outfit_history, LAMBDA entry : entry.outfit_items # <<>>)

ItemsWithCategory(c) ==
    {<<n, k>> \in (DOMAIN outfit_history) \X (1..11) :
        /\ k \in DOMAIN outfit_history[n].outfit_items
        /\ Strip(Lower(outfit_history[n].outfit_items[k].category)) = c}

\* C19: a malformed entry costs only its offending field: an entry without
\* items is still counted in the occasion distribution, an item without
\* colour is still counted in the category wear frequency and the item wear
\* counts (of which the 10 highest are kept), and what the other entries contribute is what they contribute
\* without the malformed entry.
C19_OnlyOffendingFieldSkipped ==
    Mined /\ outfit_history # <<>> =>
        /\ \A n \in DOMAIN outfit_history :
              outfit_history[n].occasion \in Keys(user_preferences.occasion_preferences)
        /\ \A n \in DOMAIN outfit_history : \A k \in DOMAIN outfit_history[n].outfit_items :
              LET item == outfit_history[n].outfit_items[k]
              IN  Strip(Lower(item.color)) = "" =>
                     /\ item.category # "" =>
                           Lookup(user_preferences.category_wear_frequency,
                                  Strip(Lower(item.category)))
                              = Cardinality(ItemsWithCategory(Strip(Lower(item.category))))
                     /\ item.id # 0 =>
                           \/ item.id \in Keys(user_preferences.most_worn_items)
                           \/ Len(user_preferences.most_worn_items) = TopItems
        /\ WithItems # <<>> /\ WithItems # outfit_history =>
              LET rest == AnalyzeUserHistory(WithItems)
              IN  /\ user_preferences.favorite_colors = rest.favorite_colors
                  /\ user_preferences.preferred_combinations = rest.preferred_combinations
                  /\ user_preferences.most_worn_items = rest.most_worn_items
                  /\ user_preferences.category_wear_frequency = rest.category_wear_frequency
                  /\ user_preferences.average_ratings = rest.average_ratings

\* the candidate with every item given the one colour
Recoloured(color) ==
    [i \in DOMAIN args.items |-> [args.items[i] EXCEPT !.color = color]]

WeatherScored ==
    op = "_calculate_weather_score" /\ pc = "done"

\* the candidate's items other than the wool outerwear item
WithoutWoolOuterwear ==
    SelectSeq(args.items, LAMBDA item : item # WoolOuterwear)

HasWoolOuterwear ==
    \E i \in DOMAIN args.items : args.items[i] = WoolOuterwear

\* C22 as stated: at -5 degrees (category freezing) a candidate with a
\* wool outerwear item has a strictly greater weather score than the same
\* candidate without that item.
C22_WoolOuterwearScoresHigher ==
    WeatherScored /\ args.weather_data # None /\ HasWoolOuterwear =>
        /\ args.weather_data.category = "freezing"
        /\ RLt(CalculateWeatherScore(WithoutWoolOuterwear, args.weather_data), result)

\* C22 amended: at -5 degrees a candidate with a wool outerwear item never
\* scores lower than the same candidate without it; the two scores are
\* equal only when both are clamped to 0 or both to 1, and [wool
\* outerwear, cotton top] scores 0.65 against 0.5 for [cotton top].
C22_WoolOuterwearScoresHigherUnlessClamped ==
    WeatherScored /\ args.weather_data # None /\ HasWoolOuterwear =>
        LET without == CalculateWeatherScore(WithoutWoolOuterwear, args.weather_data)
        IN  /\ args.weather_data.category = "freezing"
            /\ result = CalculateWeatherScore(args.items, args.weather_data)
            /\ RLe(without, result)
            /\ ~RLt(without, result) =>
                  \/ REq(result, <<0, 1>>)
                  \/ REq(result, <<1, 1>>)
            /\ args.items = <<WoolOuterwear, CottonTop>> =>
                  REq(result, <<65, 100>>) /\ REq(without, <<1, 2>>)

C22_Witness ==
    /\ WeatherScored
    /\ args.items = <<WoolOuterwear, CottonTop>>
    /\ args.weather_data = Weather(-5, "Clear")
    /\ REq(result, <<65, 100>>)
    /\ REq(CalculateWeatherScore(<<CottonTop>>, args.weather_data), <<1, 2>>)

OutfitScored ==
    op = "score_outfit" /\ pc = "done"

\* C23: scored without weather data, every outfit gets the weather score
\* 0.5, the value the weather score starts from.
C23_NeutralWeatherDefault ==
    OutfitScored /\ args.weather_data = None =>
        result.scores.weather_score = 50

\* the stored document of item had no category, and its name holds no
\* keyword of _detect_category
Uncategorised(item) ==
    \E w \in Wardrobes : \E k \in DOMAIN w :
        /\ w[k].id = item.id
        /\ w[k].category = ""
        /\ DetectCategory(w[k]) = "other"

\* C24: a wardrobe item stored without a category, whose name matches no
\* keyword, is given the category "tops" when the wardrobe is processed,
\* lands in the "tops" bucket of _categorize_items, and counts as the top
\* of an outfit for _is_outfit_valid.
C24_UnmatchedItemIsATop ==
    Suggesting /\ pc \in {"loop", "done"} =>
        \A i \in DOMAIN wardrobe :
            Uncategorised(wardrobe[i]) =>
                /\ wardrobe[i].category = "tops"
                /\ \E k \in DOMAIN categorized["tops"] : categorized["tops"][k] = wardrobe[i]
                /\ \A j \in DOMAIN wardrobe :
                      BucketOf(wardrobe[j]) = "bottoms" =>
                          IsOutfitValid([items |-> <<wardrobe[i], wardrobe[j]>>,
                                         occasion |-> occasion])

\* the combined score an outfit of the returned list carries: the
\* top-level key where lines 316-321 set it, else the one under "scores"
CombinedOf(x) ==
    IF "combined_score" \in DOMAIN x THEN x.combined_score
    ELSE <<x.scores.combined_score, 100>>

\* C25: the list generate_suggestions returns from its loop is in
\* non-increasing order of the outfits' combined scores, with weather data
\* and without.
C25_SortedByCombinedScore ==
    Suggesting /\ pc = "done" /\ wardrobe # <<>> =>
        \A i, j \in DOMAIN result :
            i < j => RLe(CombinedOf(result[j]), CombinedOf(result[i]))

\* C26: every item of every outfit generate_suggestions returns is an item
\* of the user's wardrobe, whether the outfits were generated or the
\* wardrobe was empty.
C26_ReturnedItemsAreOwned ==
    Suggesting /\ pc = "done" =>
        \A k \in DOMAIN result : \A i \in DOMAIN result[k].items :
            \E j \in DOMAIN wardrobe : ItemId(wardrobe[j]) = ItemId(result[k].items[i])

TemperatureCategorised ==
    op = "get_temperature_category" /\ pc = "done"

\* C27: get_temperature_category gives every temperature exactly one of
\* the five categories: freezing below 0, cold from 0 up to but excluding
\* 10, cool from 10 up to but excluding 20, warm from 20 up to but
\* excluding 30, hot from 30 on; 'moderate' is never returned.
C27_TemperaturePartition ==
    TemperatureCategorised =>
        LET temp_c == args.temp_c
        IN  /\ result \in {"freezing", "cold", "cool", "warm", "hot"}
            /\ result = "freezing" <=> temp_c < 0
            /\ result = "cold" <=> 0 <= temp_c /\ temp_c < 10
            /\ result = "cool" <=> 10 <= temp_c /\ temp_c < 20
            /\ result = "warm" <=> 20 <= temp_c /\ temp_c < 30
            /\ result = "hot" <=> 30 <= temp_c
            /\ result # "moderate"

\* the lower edge of a category
C27_Witness ==
    /\ TemperatureCategorised
    /\ args.temp_c = 10
    /\ result = "cool"

ItemsCategorized ==
    /\ op \in {"OutfitService._categorize_items", "PersonalizedAIService._categorize_items"}
    /\ pc = "done"

\* how many positions of list s hold x
Occurrences(s, x) ==
    Cardinality({i \in DOMAIN s : s[i] = x})

\* C28: each _categorize_items returns the six buckets, and every item of
\* the input list is in exactly one of them, as often as the input list
\* holds it; no bucket holds anything else.
C28_BucketsPartitionItems ==
    ItemsCategorized =>
        /\ DOMAIN categorized = BucketNames
        /\ \A i \in DOMAIN args.items :
              \E b \in BucketNames :
                  /\ Occurrences(categorized[b], args.items[i])
                        = Occurrences(args.items, args.items[i])
                  /\ \A c \in BucketNames \ {b} :
                        Occurrences(categorized[c], args.items[i]) = 0
        /\ \A b \in BucketNames : \A k \in DOMAIN categorized[b] :
              Occurrences(args.items, categorized[b][k]) > 0

\* an item no keyword matches, twice in one list with a matched item
C28_Witness ==
    /\ ItemsCategorized
    /\ args.items = <<Poncho, BlueJeans, Poncho>>
    /\ categorized["tops"] = <<Poncho, Poncho>>
    /\ categorized["bottoms"] = <<BlueJeans>>

WeatherReturned ==
    op = "get_weather_by_coordinates" /\ pc = "done" /\ result # None

\* C29: a record get_weather_by_coordinates returns is the cache's record
\* for the coordinates, stored less than cache_duration seconds before the
\* call: fetched by this call, or cached less than 15 minutes ago.
C29_CachedRecordIsFresh ==
    WeatherReturned =>
        LET cache_key == <<args.lat, args.lon>>
        IN  /\ cache_key \in DOMAIN cache
            /\ result = cache[cache_key][1]
            /\ now - cache[cache_key][2] < cache_duration

\* C30: daily_reminder_loop pushes at most one daily reminder to a user on
\* one UTC calendar day, whatever fails in the iterations of the window.
C30_OneReminderPerDay ==
    op = "daily_reminder_loop" =>
        \A p, q \in sent :
            p[1] = q[1] /\ DateOf(p[2]) = DateOf(q[2]) => p = q

====
